---- MODULE Spec2Model ----
(***************************************************************************)
(* Job-search aggregation pipeline (neerajaasi/private-autosearch).        *)
(*                                                                         *)
(* Python strings whose characters matter (URLs, recency texts) are        *)
(* sequences of one-character strings, so that str.lower, str.strip,       *)
(* str.split, the `in` substring test and int() are computed, not assumed. *)
(* Dates are proleptic Gregorian ordinals (date.toordinal()).              *)
(***************************************************************************)
EXTENDS Integers, Sequences, FiniteSets, TLC

\* ------------------------------------------------------------------------
\* Bounds of the model
\* ------------------------------------------------------------------------
MaxJobs == 3
MaxSites == 4
MaxChunkSize == 3
MaxRunSites == 2
MaxResults == 2
MaxTitles == 2

\* ------------------------------------------------------------------------
\* Python str primitives on character sequences
\* ------------------------------------------------------------------------
UpperChars == <<"A","B","C","D","E","F","G","H","I","J","K","L","M",
                "N","O","P","Q","R","S","T","U","V","W","X","Y","Z">>
LowerChars == <<"a","b","c","d","e","f","g","h","i","j","k","l","m",
                "n","o","p","q","r","s","t","u","v","w","x","y","z">>
Whitespace == {" ", "\t", "\n"}
DigitChars == <<"0","1","2","3","4","5","6","7","8","9">>

LowerChar(c) ==
    IF \E i \in 1..26 : UpperChars[i] = c
    THEN LowerChars[CHOOSE i \in 1..26 : UpperChars[i] = c]
    ELSE c

lower(s) == [i \in 1..Len(s) |-> LowerChar(s[i])]

RECURSIVE lstrip(_)
lstrip(s) == IF s # <<>> /\ Head(s) \in Whitespace THEN lstrip(Tail(s)) ELSE s

RECURSIVE rstrip(_)
rstrip(s) ==
    IF s # <<>> /\ s[Len(s)] \in Whitespace
    THEN rstrip(SubSeq(s, 1, Len(s) - 1))
    ELSE s

strip(s) == rstrip(lstrip(s))

\* sub in s
contains(s, sub) ==
    \E i \in 0..(Len(s) - Len(sub)) : SubSeq(s, i + 1, i + Len(sub)) = sub

\* s.split(): the maximal runs of non-whitespace characters, in order
RECURSIVE split_loop(_, _, _)
split_loop(s, cur, acc) ==
    IF s = <<>>
    THEN IF cur = <<>> THEN acc ELSE Append(acc, cur)
    ELSE IF Head(s) \in Whitespace
         THEN split_loop(Tail(s), <<>>, IF cur = <<>> THEN acc ELSE Append(acc, cur))
         ELSE split_loop(Tail(s), Append(cur, Head(s)), acc)

split(s) == split_loop(s, <<>>, <<>>)

\* s.split(sep)[0] for a one-character separator
RECURSIVE before_sep(_, _)
before_sep(s, sep) ==
    IF s = <<>> \/ Head(s) = sep THEN <<>>
    ELSE <<Head(s)>> \o before_sep(Tail(s), sep)

\* ------------------------------------------------------------------------
\* dict.get(key, default): a key is absent or holds a string
\* ------------------------------------------------------------------------
Absent == [has |-> FALSE, val |-> <<>>]
Some(v) == [has |-> TRUE, val |-> v]
get(opt, default) == IF opt.has THEN opt.val ELSE default

S_NA == <<"N","/","A">>

\* ------------------------------------------------------------------------
\* URLs and raw upstream items used as inputs
\* ------------------------------------------------------------------------
U_x1 == <<"x","/","1">>
U_X1 == <<"X","/","1">>
U_x1pad == <<" ","x","/","1"," ">>
U_x2 == <<"x","/","2">>
U_x1q == <<"x","/","1","?","r">>
U_empty == <<>>

URLs == {U_x1, U_X1, U_x1pad, U_x2, U_empty}
Titles == {"t1", "t2"}

\* a raw upstream record: title, the link key, whether apply_options is a
\* non-empty list (its first element then carries the link key), and the
\* posted_at, description and schedule_type keys
RawItemsWith(variant, posted, descs, scheds) ==
    CASE variant = "jsbt" ->
           [title : Titles, link : {Some(u) : u \in URLs} \cup {Absent}, opts : {FALSE},
            posted_at : posted, desc : descs, sched : scheds]
      [] variant = "fjbt" ->
           [title : Titles, link : {Some(u) : u \in URLs} \cup {Absent}, opts : {TRUE},
            posted_at : posted, desc : descs, sched : scheds]
             \cup [title : Titles, link : {Absent}, opts : {FALSE},
                   posted_at : posted, desc : descs, sched : scheds]
      [] variant = "linkedin" ->
           [title : Titles, link : {Some(u) : u \in (URLs \cup {U_x1q})} \cup {Absent},
            opts : {FALSE}, posted_at : posted, desc : descs, sched : scheds]

RawItems(variant) == RawItemsWith(variant, {Absent}, {Absent}, {Absent})

Variants == {"jsbt", "fjbt", "linkedin"}

RECURSIVE SeqsUpTo(_, _)
SeqsUpTo(S, n) ==
    IF n = 0 THEN {<<>>}
    ELSE LET shorter == SeqsUpTo(S, n - 1)
         IN shorter \cup {Append(q, x) : q \in {r \in shorter : Len(r) = n - 1}, x \in S}

\* ------------------------------------------------------------------------
\* Extraction of the posting URL, per pipeline variant
\* ------------------------------------------------------------------------
\* jobSearchByTitle.extract_jobs: "url": item.get("link", "N/A")
jsbt_extract_job(item) == [title |-> item.title, url |-> get(item.link, S_NA)]

jsbt_extract_jobs(results) == [i \in 1..Len(results) |-> jsbt_extract_job(results[i])]

\* linkedin.parse_search: link_el["href"].split("?")[0] if link_el else ""
li_job_url(item) == IF item.link.has THEN before_sep(item.link.val, "?") ELSE <<>>

li_parse_search(cards) ==
    [i \in 1..Len(cards) |-> [title |-> cards[i].title, url |-> li_job_url(cards[i])]]

\* ------------------------------------------------------------------------
\* int(), date and timedelta
\* ------------------------------------------------------------------------
IsDigit(c) == \E i \in 1..10 : DigitChars[i] = c
DigitVal(c) == (CHOOSE i \in 1..10 : DigitChars[i] = c) - 1

IntBody(tok) == IF tok # <<>> /\ Head(tok) \in {"+", "-"} THEN Tail(tok) ELSE tok

\* int(tok) returns (does not raise ValueError)
int_ok(tok) == IntBody(tok) # <<>> /\ \A i \in 1..Len(IntBody(tok)) : IsDigit(IntBody(tok)[i])

RECURSIVE digits_val(_, _)
digits_val(ds, acc) ==
    IF ds = <<>> THEN acc ELSE digits_val(Tail(ds), acc * 10 + DigitVal(Head(ds)))

int_val(tok) ==
    IF tok # <<>> /\ Head(tok) = "-" THEN 0 - digits_val(IntBody(tok), 0)
    ELSE digits_val(IntBody(tok), 0)

\* date.min.toordinal(), date.max.toordinal(), the magnitude limit of
\* timedelta(days=...)
DateMinOrdinal == 1
DateMaxOrdinal == 3652059
TimedeltaMaxDays == 999999999

\* results of the recency functions: a date, an ISO-formatted date string,
\* a plain text, None, a boolean, or a raised exception
Date(d) == [kind |-> "date", day |-> d, text |-> <<>>]
Iso(d) == [kind |-> "iso", day |-> d, text |-> <<>>]
Text(t) == [kind |-> "text", day |-> 0, text |-> t]
None == [kind |-> "none", day |-> 0, text |-> <<>>]
Bool(b) == [kind |-> IF b THEN "true" ELSE "false", day |-> 0, text |-> <<>>]
Raise(e) == [kind |-> "raise", day |-> 0, text |-> e]

\* today - timedelta(days=days)
date_minus_days(today, days) ==
    IF days > TimedeltaMaxDays \/ days < 0 - TimedeltaMaxDays
    THEN Raise(<<"OverflowError">>)
    ELSE IF today - days < DateMinOrdinal \/ today - days > DateMaxOrdinal
         THEN Raise(<<"OverflowError">>)
         ELSE Date(today - days)

W_hour == <<"h","o","u","r">>
W_minute == <<"m","i","n","u","t","e">>
W_day == <<"d","a","y">>
W_week == <<"w","e","e","k">>
W_month == <<"m","o","n","t","h">>
W_today == <<"t","o","d","a","y">>
W_just_posted == <<"j","u","s","t"," ","p","o","s","t","e","d">>
W_few_hours == <<"f","e","w"," ","h","o","u","r","s">>

\* int(text.split()[0]); IndexError when split() is empty
first_int(text) ==
    IF split(text) = <<>> THEN Raise(<<"IndexError">>)
    ELSE IF ~int_ok(split(text)[1]) THEN Raise(<<"ValueError">>)
    ELSE [kind |-> "int", day |-> int_val(split(text)[1]), text |-> <<>>]

\* a normalize_posted whose week branch forgets the factor 7
fjbt_normalize_posted_week1(text0, today) ==
    LET text == strip(lower(text0))
        n == first_int(text)
    IN IF contains(text, W_hour) \/ contains(text, W_minute) THEN Date(today)
       ELSE IF contains(text, W_day)
       THEN IF n.kind = "int" THEN date_minus_days(today, n.day) ELSE n
       ELSE IF contains(text, W_week)
       THEN IF n.kind = "int" THEN date_minus_days(today, n.day) ELSE n
       ELSE None

\* filteredJobsByTitle.normalize_posted
fjbt_normalize_posted(text0, today) ==
    LET text == strip(lower(text0))
        n == first_int(text)
    IN IF contains(text, W_hour) \/ contains(text, W_minute) THEN Date(today)
       ELSE IF contains(text, W_day)
       THEN IF n.kind = "int" THEN date_minus_days(today, n.day) ELSE n
       ELSE IF contains(text, W_week)
       THEN IF n.kind = "int" THEN date_minus_days(today, n.day * 7) ELSE n
       ELSE None

\* linkedin.normalize_posted: the bare except swallows every exception and
\* the lower-cased, trimmed text is returned
li_normalize_posted(text0, today) ==
    IF text0 = <<>> THEN Text(<<>>)
    ELSE LET text == strip(lower(text0))
             n == first_int(text)
             r == IF contains(text, W_hour) \/ contains(text, W_minute) THEN Date(today)
                  ELSE IF contains(text, W_day)
                  THEN IF n.kind = "int" THEN date_minus_days(today, n.day) ELSE n
                  ELSE IF contains(text, W_week)
                  THEN IF n.kind = "int" THEN date_minus_days(today, 7 * n.day) ELSE n
                  ELSE None
         IN IF r.kind = "date" THEN Iso(r.day) ELSE Text(text)

\* searchJobsByTitleAndRegion_bck.within_time_window: every exception of the
\* try block falls through to the sentinel test
within_time_window(posted_text, max_hours) ==
    IF posted_text = <<>> THEN Bool(FALSE)
    ELSE LET t == lower(posted_text)
             n == first_int(t)
             r == IF contains(t, W_hour)
                  THEN IF n.kind = "int" THEN Bool(n.day <= max_hours) ELSE n
                  ELSE IF contains(t, W_day)
                  THEN IF n.kind = "int" THEN Bool(n.day * 24 <= max_hours) ELSE n
                  ELSE IF contains(t, W_week)
                  THEN IF n.kind = "int" THEN Bool(n.day * 7 * 24 <= max_hours) ELSE n
                  ELSE None
         IN IF r.kind \in {"true", "false"} THEN r
            ELSE Bool(contains(t, W_today) \/ contains(t, W_just_posted)
                      \/ contains(t, W_few_hours))

\* searchJobsByTitle_bck.TIME_WINDOW_MAP, in hours, with the default of
\* TIME_WINDOW_MAP.get(time_window_str, timedelta(days=7))
TIME_WINDOW_MAP(time_window_str) ==
    CASE time_window_str = "24h" -> 24
      [] time_window_str = "48h" -> 48
      [] time_window_str = "7d" -> 168
      [] time_window_str = "30d" -> 720
      [] OTHER -> 168

RECURSIVE rstrip_s(_)
rstrip_s(s) ==
    IF s # <<>> /\ s[Len(s)] = "s" THEN rstrip_s(SubSeq(s, 1, Len(s) - 1)) ELSE s

\* searchJobsByTitle_bck.is_posted_within_window, on the posted_at key of
\* detected_extensions; timedelta values are compared in hours (values stay
\* far below the magnitude limit of timedelta)
is_posted_within_window(posted_at, time_window_str) ==
    IF ~posted_at.has \/ posted_at.val = <<>> THEN Bool(FALSE)
    ELSE LET parts == split(lower(posted_at.val))
         IN IF Len(parts) < 2 THEN Bool(FALSE)
            ELSE IF ~int_ok(parts[1]) THEN Bool(FALSE)
            ELSE LET value == int_val(parts[1])
                     unit == rstrip_s(parts[2])
                     time_delta == TIME_WINDOW_MAP(time_window_str)
                 IN IF unit = W_hour THEN Bool(value <= time_delta)
                    ELSE IF unit = W_day THEN Bool(value * 24 <= time_delta)
                    ELSE IF unit = W_month THEN Bool(value * 30 * 24 <= time_delta)
                    ELSE Bool(FALSE)

\* ------------------------------------------------------------------------
\* Deduplication
\* ------------------------------------------------------------------------
RECURSIVE rd_loop(_, _, _)
rd_loop(jobs, seen, unique) ==
    IF jobs = <<>> THEN unique
    ELSE LET url == strip(lower(Head(jobs).url))
         IN IF url \notin seen
            THEN rd_loop(Tail(jobs), seen \cup {url}, Append(unique, Head(jobs)))
            ELSE rd_loop(Tail(jobs), seen, unique)

\* a dedupe that compares the raw URL (no lower(), no strip())
RECURSIVE rd_loop_raw(_, _, _)
rd_loop_raw(jobs, seen, unique) ==
    IF jobs = <<>> THEN unique
    ELSE LET url == Head(jobs).url
         IN IF url \notin seen
            THEN rd_loop_raw(Tail(jobs), seen \cup {url}, Append(unique, Head(jobs)))
            ELSE rd_loop_raw(Tail(jobs), seen, unique)

\* a dedupe that forgets a URL once it has dropped a duplicate of it
RECURSIVE rd_loop_forget(_, _, _)
rd_loop_forget(jobs, seen, unique) ==
    IF jobs = <<>> THEN unique
    ELSE LET url == strip(lower(Head(jobs).url))
         IN IF url \notin seen
            THEN rd_loop_forget(Tail(jobs), seen \cup {url}, Append(unique, Head(jobs)))
            ELSE rd_loop_forget(Tail(jobs), seen \ {url}, unique)

jsbt_remove_duplicates_forget(jobs) == rd_loop_forget(jobs, {}, <<>>)

\* jobSearchByTitle.remove_duplicates
jsbt_remove_duplicates(jobs) == rd_loop(jobs, {}, <<>>)

\* filteredJobsByTitle.remove_duplicates
fjbt_remove_duplicates(jobs) == rd_loop(jobs, {}, <<>>)

\* linkedin.save_sheet: pd.DataFrame(records).drop_duplicates(subset=["url"])
\* keeps the first row of every exact url value, in order
li_drop_duplicates(records) == rd_loop_raw(records, {}, <<>>)

\* ------------------------------------------------------------------------
\* filteredJobsByTitle.extract_google_jobs
\* ------------------------------------------------------------------------
\* job_url = "N/A"; replaced by apply_options[0].get("link", "N/A") when
\* apply_options is a non-empty list
fjbt_job_url(item) == IF item.opts THEN get(item.link, S_NA) ELSE S_NA

\* an any(...) that looks at the description only
any_keyword_desc(mode_keywords, desc, schedule_type) ==
    \E i \in 1..Len(mode_keywords) : contains(desc, mode_keywords[i])

any_keyword(mode_keywords, desc, schedule_type) ==
    \E i \in 1..Len(mode_keywords) :
        contains(desc, mode_keywords[i]) \/ contains(schedule_type, mode_keywords[i])

\* the loop over results["jobs_results"]; an exception of normalize_posted
\* leaves the function
RECURSIVE egj_loop(_, _, _, _, _)
egj_loop(items, mode_keywords, after_dt, today, jobs) ==
    IF items = <<>> THEN [raised |-> FALSE, jobs |-> jobs]
    ELSE LET item == Head(items)
             desc == lower(get(item.desc, <<>>))
             schedule_type == lower(get(item.sched, <<>>))
             posted == get(item.posted_at, S_NA)
             np == fjbt_normalize_posted(posted, today)
             posted_date == IF np.kind = "none" THEN after_dt ELSE np.day
             job == [title |-> item.title, url |-> fjbt_job_url(item),
                     posted |-> posted, jobtype |-> schedule_type]
         IN IF np.kind = "raise" THEN [raised |-> TRUE, jobs |-> <<>>]
            ELSE IF posted_date < after_dt
            THEN egj_loop(Tail(items), mode_keywords, after_dt, today, jobs)
            ELSE IF mode_keywords # <<>> /\ ~any_keyword(mode_keywords, desc, schedule_type)
            THEN egj_loop(Tail(items), mode_keywords, after_dt, today, jobs)
            ELSE egj_loop(Tail(items), mode_keywords, after_dt, today, Append(jobs, job))

fjbt_extract_google_jobs(jobs_results, mode_keywords, after_dt, today) ==
    egj_loop(jobs_results, mode_keywords, after_dt, today, <<>>)

\* ------------------------------------------------------------------------
\* State
\* ------------------------------------------------------------------------
VARIABLES
    dd_variant,   \* deduplication: the pipeline variant applied
    dd_results,   \* the raw upstream records
    dd_jobs,      \* the postings extracted from them
    dd_unique,    \* remove_duplicates(dd_jobs)
    dd_again,     \* remove_duplicates(dd_unique)
    dd_pc,
    ck_variant,   \* chunking: which chunk_list
    ck_lst,       \* the list to chunk
    ck_size,      \* the chunk size
    ck_out,       \* list(chunk_list(ck_lst, ck_size))
    ck_pc,
    np_fn,        \* recency: the function applied
    np_src,       \* how the text was built: pattern "N unit ago" or other
    np_text,      \* the recency text
    np_today,     \* date.today()
    np_window,    \* max_hours / time_window_str of the window checks
    np_res,       \* the result
    np_pc,
    pc,                   \* jobSearchByTitle.main: position in main / run_for_job
    serpapi_key,          \* os.getenv("SERPAPI_KEY") is set
    sites,                \* load_sites(...)
    chunk_size,           \* cfg["chunk_size"]
    job_titles,           \* the titles main has not processed yet
    job_title,            \* the title run_for_job is processing
    site_chunks,          \* what chunk_list(sites, chunk_size) has not yielded yet
    idx,                  \* number of the chunk last searched
    collected_jobs,
    chunk_outputs,        \* history: the jobs extracted from each chunk of the title
    unique,               \* remove_duplicates(collected_jobs) of the last title
    queries_accumulator,
    txt_files,            \* the text reports on disk, by job slug
    wb,                   \* the workbook in memory, or NoWorkbook
    excel_file,           \* the workbook file on disk, or NoWorkbook
    bk_pc,                \* searchJobsByTitle_bck.main: position in main
    bk_key,               \* SERPAPI_KEY is set
    bk_cfg,               \* load_config(): "ok", or "missing" ({} is returned)
    bk_titles,            \* the job titles main has not processed yet
    bk_regions,           \* cfg regions
    bk_domains,           \* cfg ats_domains
    bk_window,            \* cfg time_window
    bk_job_title,         \* the title being processed
    bk_chunks,            \* the domain chunks not searched yet
    bk_all_filtered,      \* all_filtered_results
    bk_chunk_outputs,     \* history: the filtered results of each chunk of the title
    bk_queries,           \* history: the queries handed to search_jobs
    bk_files,             \* the text reports on disk, by file name
    script,               \* which script runs: jobSearchByTitle or filteredJobsByTitle
    fetched,              \* history: an HTTP request was sent to SerpAPI
    completed,            \* history: the titles saved in this run, with their rows
    fl_variant,   \* result filter: which script's filter
    fl_src,       \* how the recency text of each upstream record was built
    fl_items,     \* the upstream records
    fl_modes,     \* cfg["job_type"]["modes"]
    fl_window,    \* cfg time_window
    fl_days_back, \* cfg["days_back"]
    fl_out,       \* the records the filter kept
    fl_pc,
    pg_variant,   \* paginated fetch: which script's search_jobs
    pg_pages,     \* what upstream answers to each page request
    pg_out,       \* what search_jobs did and returned
    pg_pc,
    rt_fn,        \* retrying fetch: serpapi_search or serpapi_jobs_search
    rt_responses, \* what upstream answers to each attempt
    rt_out,       \* what the function did and returned
    rt_pc,
    qy_variant,   \* query planning: which script's query builder
    qy_title,     \* the job title
    qy_keywords,  \* cfg["keywords"]
    qy_regions,   \* cfg["regions"]
    qy_sites,     \* the sites / ats_domains
    qy_size,      \* the chunk size
    qy_modes,     \* cfg["job_type"]["modes"]
    qy_queries,   \* the query strings planned for the title
    qy_pc,
    dl_variant,   \* fetch timing: which loop
    dl_input,     \* what upstream answers to the requests of the loop
    dl_trace,     \* the requests sent and the sleeps made, in order
    dl_pc,
    li_pc,        \* linkedin.run: position in run
    li_titles,    \* the job titles run has not processed yet
    li_title,     \* the title being processed
    li_combined,  \* combined, the rows collected for the title
    li_saved,     \* history: the titles whose rows were saved
    li_file       \* the workbook file at excel_path, or NoWorkbook

ddVars == <<dd_variant, dd_results, dd_jobs, dd_unique, dd_again, dd_pc>>
ckVars == <<ck_variant, ck_lst, ck_size, ck_out, ck_pc>>
npVars == <<np_fn, np_src, np_text, np_today, np_window, np_res, np_pc>>
runVars == <<pc, serpapi_key, sites, chunk_size, job_titles, job_title, site_chunks, idx,
             collected_jobs, chunk_outputs, unique, queries_accumulator, txt_files, wb,
             excel_file, script, fetched, completed>>
bckVars == <<bk_pc, bk_key, bk_cfg, bk_titles, bk_regions, bk_domains, bk_window,
             bk_job_title, bk_chunks, bk_all_filtered, bk_chunk_outputs, bk_queries,
             bk_files>>
flVars == <<fl_variant, fl_src, fl_items, fl_modes, fl_window, fl_days_back, fl_out, fl_pc>>
pgVars == <<pg_variant, pg_pages, pg_out, pg_pc>>
rtVars == <<rt_fn, rt_responses, rt_out, rt_pc>>
qyVars == <<qy_variant, qy_title, qy_keywords, qy_regions, qy_sites, qy_size, qy_modes,
            qy_queries, qy_pc>>
dlVars == <<dl_variant, dl_input, dl_trace, dl_pc>>
liVars == <<li_pc, li_titles, li_title, li_combined, li_saved, li_file>>
vars == <<ddVars, ckVars, npVars, runVars, bckVars, flVars, pgVars, rtVars, qyVars, dlVars,
          liVars>>

\* what the actions of one specification leave alone
othersDd == <<ckVars, npVars, runVars, bckVars, flVars, pgVars, rtVars, qyVars, dlVars, liVars>>
othersCk == <<ddVars, npVars, runVars, bckVars, flVars, pgVars, rtVars, qyVars, dlVars, liVars>>
othersNp == <<ddVars, ckVars, runVars, bckVars, flVars, pgVars, rtVars, qyVars, dlVars, liVars>>
othersRun == <<ddVars, ckVars, npVars, bckVars, flVars, pgVars, rtVars, qyVars, dlVars, liVars>>
othersBck == <<ddVars, ckVars, npVars, runVars, flVars, pgVars, rtVars, qyVars, dlVars, liVars>>
othersFl == <<ddVars, ckVars, npVars, runVars, bckVars, pgVars, rtVars, qyVars, dlVars, liVars>>
othersPg == <<ddVars, ckVars, npVars, runVars, bckVars, flVars, rtVars, qyVars, dlVars, liVars>>
othersRt == <<ddVars, ckVars, npVars, runVars, bckVars, flVars, pgVars, qyVars, dlVars, liVars>>
othersQy == <<ddVars, ckVars, npVars, runVars, bckVars, flVars, pgVars, rtVars, dlVars, liVars>>
othersDl == <<ddVars, ckVars, npVars, runVars, bckVars, flVars, pgVars, rtVars, qyVars, liVars>>
othersLi == <<ddVars, ckVars, npVars, runVars, bckVars, flVars, pgVars, rtVars, qyVars, dlVars>>

NoWorkbook == [exists |-> FALSE, sheets |-> <<>>]
NoFiles == [slug \in {} |-> <<>>]

runIdle ==
    /\ pc = "idle" /\ serpapi_key = FALSE /\ sites = <<>> /\ chunk_size = 1
    /\ job_titles = <<>> /\ job_title = <<>> /\ site_chunks = <<>> /\ idx = 0
    /\ collected_jobs = <<>> /\ chunk_outputs = <<>> /\ unique = <<>>
    /\ queries_accumulator = <<>> /\ txt_files = NoFiles
    /\ wb = NoWorkbook /\ excel_file = NoWorkbook
    /\ script = "none" /\ fetched = FALSE /\ completed = <<>>

ddIdle ==
    /\ dd_variant = "jsbt" /\ dd_results = <<>> /\ dd_jobs = <<>>
    /\ dd_unique = <<>> /\ dd_again = <<>> /\ dd_pc = "idle"
ckIdle ==
    /\ ck_variant = "jsbt" /\ ck_lst = <<>> /\ ck_size = 1 /\ ck_out = <<>> /\ ck_pc = "idle"
npIdle ==
    /\ np_fn = "none" /\ np_src = [kind |-> "other", n |-> 0, unit |-> ""]
    /\ np_text = <<>> /\ np_today = 0 /\ np_window = "" /\ np_res = None /\ np_pc = "idle"

bckIdle ==
    /\ bk_pc = "idle" /\ bk_key = FALSE /\ bk_cfg = "missing" /\ bk_titles = <<>>
    /\ bk_regions = <<>> /\ bk_domains = <<>> /\ bk_window = "" /\ bk_job_title = <<>>
    /\ bk_chunks = <<>> /\ bk_all_filtered = <<>> /\ bk_chunk_outputs = <<>>
    /\ bk_queries = <<>> /\ bk_files = NoFiles

flIdle ==
    /\ fl_variant = "none" /\ fl_src = <<>> /\ fl_items = <<>> /\ fl_modes = <<>>
    /\ fl_window = "" /\ fl_days_back = 0 /\ fl_out = <<>> /\ fl_pc = "idle"
pgIdle ==
    /\ pg_variant = "none" /\ pg_pages = <<>> /\ pg_out = <<>> /\ pg_pc = "idle"
rtIdle ==
    /\ rt_fn = "none" /\ rt_responses = <<>> /\ rt_out = <<>> /\ rt_pc = "idle"
qyIdle ==
    /\ qy_variant = "none" /\ qy_title = <<>> /\ qy_keywords = <<>> /\ qy_regions = <<>>
    /\ qy_sites = <<>> /\ qy_size = 1 /\ qy_modes = <<>> /\ qy_queries = <<>>
    /\ qy_pc = "idle"
dlIdle ==
    /\ dl_variant = "none" /\ dl_input = <<>> /\ dl_trace = <<>> /\ dl_pc = "idle"
liIdle ==
    /\ li_pc = "idle" /\ li_titles = <<>> /\ li_title = <<>> /\ li_combined = <<>>
    /\ li_saved = <<>> /\ li_file = NoWorkbook

idleButDd == ckIdle /\ npIdle /\ runIdle /\ bckIdle /\ flIdle /\ pgIdle /\ rtIdle /\ qyIdle /\ dlIdle /\ liIdle
idleButCk == ddIdle /\ npIdle /\ runIdle /\ bckIdle /\ flIdle /\ pgIdle /\ rtIdle /\ qyIdle /\ dlIdle /\ liIdle
idleButNp == ddIdle /\ ckIdle /\ runIdle /\ bckIdle /\ flIdle /\ pgIdle /\ rtIdle /\ qyIdle /\ dlIdle /\ liIdle
idleButRun == ddIdle /\ ckIdle /\ npIdle /\ bckIdle /\ flIdle /\ pgIdle /\ rtIdle /\ qyIdle /\ dlIdle /\ liIdle
idleButBck == ddIdle /\ ckIdle /\ npIdle /\ runIdle /\ flIdle /\ pgIdle /\ rtIdle /\ qyIdle /\ dlIdle /\ liIdle
idleButFl == ddIdle /\ ckIdle /\ npIdle /\ runIdle /\ bckIdle /\ pgIdle /\ rtIdle /\ qyIdle /\ dlIdle /\ liIdle
idleButPg == ddIdle /\ ckIdle /\ npIdle /\ runIdle /\ bckIdle /\ flIdle /\ rtIdle /\ qyIdle /\ dlIdle /\ liIdle
idleButRt == ddIdle /\ ckIdle /\ npIdle /\ runIdle /\ bckIdle /\ flIdle /\ pgIdle /\ qyIdle /\ dlIdle /\ liIdle
idleButQy == ddIdle /\ ckIdle /\ npIdle /\ runIdle /\ bckIdle /\ flIdle /\ pgIdle /\ rtIdle /\ dlIdle /\ liIdle
idleButDl == ddIdle /\ ckIdle /\ npIdle /\ runIdle /\ bckIdle /\ flIdle /\ pgIdle /\ rtIdle /\ qyIdle /\ liIdle
idleButLi == ddIdle /\ ckIdle /\ npIdle /\ runIdle /\ bckIdle /\ flIdle /\ pgIdle /\ rtIdle /\ qyIdle /\ dlIdle

\* the reference date of the run, date.today()
Today == 739921

\* ------------------------------------------------------------------------
\* Deduplication applied to extracted postings
\* ------------------------------------------------------------------------
InitDedupe ==
    /\ dd_variant \in Variants
    /\ dd_results \in SeqsUpTo(RawItems(dd_variant), MaxJobs)
    /\ dd_jobs = <<>> /\ dd_unique = <<>> /\ dd_again = <<>>
    /\ dd_pc = "raw"
    /\ idleButDd

\* jobSearchByTitle.run_for_job: extract_jobs, then remove_duplicates
ExtractJobs ==
    /\ dd_pc = "raw" /\ dd_variant = "jsbt"
    /\ dd_jobs' = jsbt_extract_jobs(dd_results)
    /\ dd_pc' = "extracted"
    /\ UNCHANGED <<dd_variant, dd_results, dd_unique, dd_again, othersDd>>

\* filteredJobsByTitle.run_for_job: extract_google_jobs, then
\* remove_duplicates (no job-type keywords, every posted_at absent)
ExtractGoogleJobs ==
    /\ dd_pc = "raw" /\ dd_variant = "fjbt"
    /\ LET r == fjbt_extract_google_jobs(dd_results, <<>>, Today - 7, Today)
       IN /\ ~r.raised
          /\ dd_jobs' = r.jobs
    /\ dd_pc' = "extracted"
    /\ UNCHANGED <<dd_variant, dd_results, dd_unique, dd_again, othersDd>>

\* linkedin.run: parse_search, then save_sheet
ParseSearch ==
    /\ dd_pc = "raw" /\ dd_variant = "linkedin"
    /\ dd_jobs' = li_parse_search(dd_results)
    /\ dd_pc' = "extracted"
    /\ UNCHANGED <<dd_variant, dd_results, dd_unique, dd_again, othersDd>>

dedupe(variant, jobs) ==
    CASE variant = "jsbt" -> jsbt_remove_duplicates(jobs)
      [] variant = "fjbt" -> fjbt_remove_duplicates(jobs)
      [] variant = "linkedin" -> li_drop_duplicates(jobs)

RemoveDuplicates ==
    /\ dd_pc = "extracted"
    /\ dd_unique' = dedupe(dd_variant, dd_jobs)
    /\ dd_pc' = "deduped"
    /\ UNCHANGED <<dd_variant, dd_results, dd_jobs, dd_again, othersDd>>

\* the deduplication applied to its own output
RemoveDuplicatesAgain ==
    /\ dd_pc = "deduped"
    /\ dd_again' = dedupe(dd_variant, dd_unique)
    /\ dd_pc' = "again"
    /\ UNCHANGED <<dd_variant, dd_results, dd_jobs, dd_unique, othersDd>>

NextDedupe ==
    \/ ExtractJobs
    \/ ExtractGoogleJobs
    \/ ParseSearch
    \/ RemoveDuplicates
    \/ RemoveDuplicatesAgain

SpecDedupe == InitDedupe /\ [][NextDedupe]_vars

\* C4: deduplication is stable: the output is exactly the first occurrence
\* of each canonical (lower-cased, trimmed) URL, in input order.
CanonURL(u) == strip(lower(u))

FirstOccurrences(jobs) ==
    {i \in 1..Len(jobs) : \A j \in 1..(i - 1) : CanonURL(jobs[j].url) # CanonURL(jobs[i].url)}

RECURSIVE PickFrom(_, _, _)
PickFrom(jobs, keep, i) ==
    IF i > Len(jobs) THEN <<>>
    ELSE (IF i \in keep THEN <<jobs[i]>> ELSE <<>>) \o PickFrom(jobs, keep, i + 1)

StableDedup(jobs) == PickFrom(jobs, FirstOccurrences(jobs), 1)

C4_StableFirstOccurrence ==
    dd_pc \in {"deduped", "again"} => dd_unique = StableDedup(dd_jobs)

\* C5: deduplication is idempotent, and a sequence without two equal
\* canonical URLs is returned unchanged.
NoCanonDuplicates(jobs) == FirstOccurrences(jobs) = 1..Len(jobs)

C5_Idempotent ==
    /\ dd_pc = "again" => dd_again = dd_unique
    /\ (dd_pc \in {"deduped", "again"} /\ NoCanonDuplicates(dd_jobs)) => dd_unique = dd_jobs

C5_Witness ==
    /\ dd_pc = "again"
    /\ Len(dd_jobs) = 3
    /\ Len(dd_unique) = 2
    /\ dd_again = dd_unique

\* C6: postings without a URL are never deduplicated against each other:
\* all of them appear in the output.
NoUrlJob(job) == strip(job.url) = <<>> \/ job.url = S_NA

RECURSIVE CountNoUrl(_)
CountNoUrl(jobs) ==
    IF jobs = <<>> THEN 0
    ELSE (IF NoUrlJob(Head(jobs)) THEN 1 ELSE 0) + CountNoUrl(Tail(jobs))

C6_NoUrlAllKept ==
    dd_pc \in {"deduped", "again"} => CountNoUrl(dd_unique) = CountNoUrl(dd_jobs)

\* C7: in every variant, no two postings of the output have URLs that
\* differ only in letter case or surrounding whitespace.
C7_CanonicalUnique ==
    dd_pc \in {"deduped", "again"} =>
        \A i, j \in 1..Len(dd_unique) :
            i < j => CanonURL(dd_unique[i].url) # CanonURL(dd_unique[j].url)

\* ------------------------------------------------------------------------
\* Chunking
\* ------------------------------------------------------------------------
Sites == {"a.com", "b.com", "c.com"}

Min(a, b) == IF a < b THEN a ELSE b

\* for i in range(0, stop, size): yield lst[i:i+size]
RECURSIVE chunk_range(_, _, _, _)
chunk_range(lst, size, i, stop) ==
    IF i >= stop THEN <<>>
    ELSE <<SubSeq(lst, i + 1, Min(i + size, Len(lst)))>> \o chunk_range(lst, size, i + size, stop)

\* range(0, len(lst) - 1, size): the last element is not a start index
jsbt_chunk_list_short(lst, size) == chunk_range(lst, size, 0, Len(lst) - 1)

\* jobSearchByTitle.chunk_list
jsbt_chunk_list(lst, size) == chunk_range(lst, size, 0, Len(lst))

\* searchJobsByTitle_bck.chunk_list
bck_chunk_list(items, size) == chunk_range(items, size, 0, Len(items))

InitChunk ==
    /\ ck_variant \in {"jsbt", "bck"}
    /\ ck_lst \in SeqsUpTo(Sites, MaxSites)
    /\ ck_size \in 1..MaxChunkSize
    /\ ck_out = <<>>
    /\ ck_pc = "start"
    /\ idleButCk

ChunkListJsbt ==
    /\ ck_pc = "start" /\ ck_variant = "jsbt"
    /\ ck_out' = jsbt_chunk_list(ck_lst, ck_size)
    /\ ck_pc' = "done"
    /\ UNCHANGED <<ck_variant, ck_lst, ck_size, othersCk>>

ChunkListBck ==
    /\ ck_pc = "start" /\ ck_variant = "bck"
    /\ ck_out' = bck_chunk_list(ck_lst, ck_size)
    /\ ck_pc' = "done"
    /\ UNCHANGED <<ck_variant, ck_lst, ck_size, othersCk>>

NextChunk == ChunkListJsbt \/ ChunkListBck

SpecChunk == InitChunk /\ [][NextChunk]_vars

RECURSIVE Flatten(_)
Flatten(ss) == IF ss = <<>> THEN <<>> ELSE Head(ss) \o Flatten(Tail(ss))

CeilDiv(l, c) == (l + c - 1) \div c

\* C2: chunking a list of length L with chunk size C > 0 yields ceil(L/C)
\* chunks of at most C elements whose concatenation is the input list.
C2_Chunking ==
    ck_pc = "done" =>
        /\ Len(ck_out) = CeilDiv(Len(ck_lst), ck_size)
        /\ \A k \in 1..Len(ck_out) : Len(ck_out[k]) <= ck_size
        /\ Flatten(ck_out) = ck_lst

C2_Witness ==
    /\ ck_pc = "done"
    /\ Len(ck_lst) = 3 /\ ck_size = 2
    /\ Len(ck_out) = 2 /\ Len(ck_out[2]) = 1

\* ------------------------------------------------------------------------
\* Recency texts
\* ------------------------------------------------------------------------
MaxN == 3

RECURSIVE ToDigits(_)
ToDigits(n) ==
    IF n < 10 THEN <<DigitChars[n + 1]>>
    ELSE Append(ToDigits(n \div 10), DigitChars[(n % 10) + 1])

\* the counts N of "N unit ago": small ones, and the ones around the age of
\* date.min in days and in weeks
Counts == (0..MaxN) \cup {7, Today - 1, Today, (Today - 1) \div 7, ((Today - 1) \div 7) + 1}

\* unit words as upstream writes them, with the unit they denote
UnitWords ==
    { [unit |-> "hour", word |-> <<"h","o","u","r">>],
      [unit |-> "hour", word |-> <<"h","o","u","r","s">>],
      [unit |-> "hour", word |-> <<"H","o","u","r","s">>],
      [unit |-> "minute", word |-> <<"m","i","n","u","t","e">>],
      [unit |-> "minute", word |-> <<"m","i","n","u","t","e","s">>],
      [unit |-> "day", word |-> <<"d","a","y">>],
      [unit |-> "day", word |-> <<"d","a","y","s">>],
      [unit |-> "day", word |-> <<"D","a","y","s">>],
      [unit |-> "week", word |-> <<"w","e","e","k">>],
      [unit |-> "week", word |-> <<"w","e","e","k","s">>],
      [unit |-> "month", word |-> <<"m","o","n","t","h">>],
      [unit |-> "month", word |-> <<"m","o","n","t","h","s">>] }

W_ago == <<" ","a","g","o">>

PatternText(n, word) == ToDigits(n) \o <<" ">> \o word \o W_ago

\* the sentinel phrases
SentinelTexts ==
    { <<"t","o","d","a","y">>,
      <<"T","o","d","a","y">>,
      <<"j","u","s","t"," ","p","o","s","t","e","d">>,
      <<"J","u","s","t"," ","p","o","s","t","e","d">>,
      <<"f","e","w"," ","h","o","u","r","s"," ","a","g","o">> }

\* texts that match no pattern
OtherTexts ==
    { <<"y","e","s","t","e","r","d","a","y">>,
      <<"a"," ","d","a","y"," ","a","g","o">>,
      <<"l","a","s","t"," ","w","e","e","k">>,
      <<"b","a","n","a","n","a">>,
      <<"N","/","A">>,
      <<"3","0","+"," ","d","a","y","s"," ","a","g","o">>,
      <<" ">>,
      <<>> }

\* searchJobsByTitleAndRegion_bck.parse_time_window
parse_time_window(window) ==
    CASE window = "24h" -> 24
      [] window = "48h" -> 48
      [] window = "7d" -> 168
      [] OTHER -> 24

Windows == {"24h", "48h", "7d", "30d"}
RecencyFns == {"fjbt_normalize_posted", "li_normalize_posted",
               "within_time_window", "is_posted_within_window"}

InitNorm ==
    /\ np_fn \in RecencyFns
    /\ np_today = Today
    /\ np_window \in Windows
    /\ \/ \E n \in Counts, w \in UnitWords :
             /\ np_src = [kind |-> "pattern", n |-> n, unit |-> w.unit]
             /\ np_text = PatternText(n, w.word)
       \/ \E t \in SentinelTexts :
             /\ np_src = [kind |-> "sentinel", n |-> 0, unit |-> ""]
             /\ np_text = t
       \/ \E t \in OtherTexts :
             /\ np_src = [kind |-> "other", n |-> 0, unit |-> ""]
             /\ np_text = t
    /\ np_res = None
    /\ np_pc = "start"
    /\ idleButNp

NormalizePostedFjbt ==
    /\ np_pc = "start" /\ np_fn = "fjbt_normalize_posted"
    /\ np_res' = fjbt_normalize_posted(np_text, np_today)
    /\ np_pc' = "done"
    /\ UNCHANGED <<np_fn, np_src, np_text, np_today, np_window, othersNp>>

NormalizePostedLinkedin ==
    /\ np_pc = "start" /\ np_fn = "li_normalize_posted"
    /\ np_res' = li_normalize_posted(np_text, np_today)
    /\ np_pc' = "done"
    /\ UNCHANGED <<np_fn, np_src, np_text, np_today, np_window, othersNp>>

\* search_jobs: within_time_window(j.get(...).get("posted_at", ""), max_hours)
WithinTimeWindow ==
    /\ np_pc = "start" /\ np_fn = "within_time_window"
    /\ np_res' = within_time_window(np_text, parse_time_window(np_window))
    /\ np_pc' = "done"
    /\ UNCHANGED <<np_fn, np_src, np_text, np_today, np_window, othersNp>>

IsPostedWithinWindow ==
    /\ np_pc = "start" /\ np_fn = "is_posted_within_window"
    /\ np_res' = is_posted_within_window(Some(np_text), np_window)
    /\ np_pc' = "done"
    /\ UNCHANGED <<np_fn, np_src, np_text, np_today, np_window, othersNp>>

NextNorm ==
    \/ NormalizePostedFjbt
    \/ NormalizePostedLinkedin
    \/ WithinTimeWindow
    \/ IsPostedWithinWindow

SpecNorm == InitNorm /\ [][NextNorm]_vars

Normalizers == {"fjbt_normalize_posted", "li_normalize_posted"}

\* C8: recency normalization never raises: a text that matches no known
\* pattern resolves to "unknown" (no date), not to an exception.
C8_UnmatchedIsUnknown ==
    (np_pc = "done" /\ np_fn \in Normalizers /\ np_src.kind = "other") =>
        np_res.kind \in {"none", "text"}

\* the date "N unit ago" denotes
ExpectedDay(src, today) ==
    CASE src.unit \in {"hour", "minute"} -> today
      [] src.unit = "day" -> today - src.n
      [] src.unit = "week" -> today - 7 * src.n
      [] src.unit = "month" -> today - 30 * src.n

\* a resolved date as the function returns it: a date, or its ISO string
Resolved(fn, d) == IF fn = "li_normalize_posted" THEN Iso(d) ELSE Date(d)

C10_SentinelIsToday ==
    (np_pc = "done" /\ np_src.kind = "sentinel") =>
        IF np_fn \in Normalizers
        THEN np_res = Resolved(np_fn, np_today)
        ELSE np_res = Bool(TRUE)

\* C11: for every positive N, "N month(s) ago" is a known pattern: the
\* normalizers resolve it to D - 30N days, and the window check of
\* is_posted_within_window treats it as an age of 30N days.
C11_MonthResolved ==
    (/\ np_pc = "done" /\ np_fn \in Normalizers \cup {"is_posted_within_window"}
     /\ np_src.kind = "pattern" /\ np_src.unit = "month" /\ np_src.n > 0
     /\ ExpectedDay(np_src, np_today) >= DateMinOrdinal) =>
        IF np_fn \in Normalizers
        THEN np_res = Resolved(np_fn, ExpectedDay(np_src, np_today))
        ELSE np_res = Bool(30 * np_src.n * 24 <= TIME_WINDOW_MAP(np_window))

\* ------------------------------------------------------------------------
\* jobSearchByTitle.serpapi_search
\* ------------------------------------------------------------------------
\* max_retries=5
max_retries == 5

\* the body r.json() of a successful response, and None
NoneJson == [kind |-> "none", results |-> <<>>]
EmptyJson == [kind |-> "empty", results |-> <<>>]
NoOrganicJson == [kind |-> "no_organic", results |-> <<>>]
OrganicJson(results) == [kind |-> "organic", results |-> results]

\* the attempts of one call: each response is an HTTP 429, an exception
\* (timeout, raise_for_status, undecodable body) or a decoded body
RECURSIVE serpapi_attempts(_, _, _)
serpapi_attempts(responses, attempt, sleeps) ==
    IF attempt >= max_retries
    THEN [json |-> NoneJson, sleeps |-> sleeps, requests |-> attempt]
    ELSE LET r == responses[attempt + 1]
         IN IF r.kind = "429"
            THEN serpapi_attempts(responses, attempt + 1, Append(sleeps, 5 * (attempt + 1)))
            ELSE IF r.kind = "error"
            THEN serpapi_attempts(responses, attempt + 1, Append(sleeps, 3 * (attempt + 1)))
            ELSE [json |-> r.json, sleeps |-> sleeps, requests |-> attempt + 1]

\* a serpapi_search that waits the same 5 seconds after every 429
RECURSIVE serpapi_attempts_flat(_, _, _)
serpapi_attempts_flat(responses, attempt, sleeps) ==
    IF attempt >= max_retries
    THEN [json |-> NoneJson, sleeps |-> sleeps, requests |-> attempt]
    ELSE LET r == responses[attempt + 1]
         IN IF r.kind = "429"
            THEN serpapi_attempts_flat(responses, attempt + 1, Append(sleeps, 5))
            ELSE IF r.kind = "error"
            THEN serpapi_attempts_flat(responses, attempt + 1, Append(sleeps, 3 * (attempt + 1)))
            ELSE [json |-> r.json, sleeps |-> sleeps, requests |-> attempt + 1]

serpapi_search_flat(responses) == serpapi_attempts_flat(responses, 0, <<>>)

serpapi_search(responses) == serpapi_attempts(responses, 0, <<>>)

Resp429 == [kind |-> "429", json |-> NoneJson]
RespError == [kind |-> "error", json |-> NoneJson]
RespOk(json) == [kind |-> "ok", json |-> json]

\* the organic results upstream may return for a chunk: up to MaxResults
\* consecutive entries of a result list in which x/1 and X/1 differ in case
RunItem(u) ==
    [title |-> "t1", link |-> Some(u), opts |-> FALSE,
     posted_at |-> Absent, desc |-> Absent, sched |-> Absent]
UpstreamResults == <<RunItem(U_x1), RunItem(U_x2), RunItem(U_X1)>>
ResultLists ==
    {[i \in 1..n |-> UpstreamResults[((from + i - 2) % 3) + 1]] :
        from \in 1..3, n \in 0..MaxResults}

OkBodies == {EmptyJson, NoOrganicJson} \cup {OrganicJson(rs) : rs \in ResultLists}

\* what upstream answers to the attempts of one call: some failed attempts
\* and a body, or max_retries failed attempts
FailedAttempts == {<<>>, <<Resp429>>, <<RespError, Resp429>>}
ExhaustedAttempts ==
    { [i \in 1..max_retries |-> Resp429],
      [i \in 1..max_retries |-> RespError],
      [i \in 1..max_retries |-> IF i % 2 = 0 THEN Resp429 ELSE RespError] }
ResponseSeqs ==
    {Append(f, RespOk(b)) : f \in FailedAttempts, b \in OkBodies} \cup ExhaustedAttempts

\* what serpapi_search can return to run_for_job, and whether it sent a
\* request
SerpReturns ==
    {[json |-> serpapi_search(responses).json,
      requested |-> serpapi_search(responses).requests > 0] : responses \in ResponseSeqs}

\* ------------------------------------------------------------------------
\* filteredJobsByTitle.serpapi_jobs_search
\* ------------------------------------------------------------------------
JobsJson(results) == [kind |-> "jobs", results |-> results]

RECURSIVE serpapi_jobs_attempts(_, _, _)
serpapi_jobs_attempts(responses, attempt, sleeps) ==
    IF attempt >= max_retries
    THEN [json |-> NoneJson, sleeps |-> sleeps, requests |-> attempt]
    ELSE LET r == responses[attempt + 1]
         IN IF r.kind = "429"
            THEN serpapi_jobs_attempts(responses, attempt + 1, Append(sleeps, 5 * (attempt + 1)))
            ELSE IF r.kind = "error"
            THEN serpapi_jobs_attempts(responses, attempt + 1, Append(sleeps, 3 * (attempt + 1)))
            ELSE [json |-> r.json, sleeps |-> sleeps, requests |-> attempt + 1]

serpapi_jobs_search(responses) == serpapi_jobs_attempts(responses, 0, <<>>)

P_yesterday == <<"y","e","s","t","e","r","d","a","y">>

\* the jobs_results Google Jobs may return for a title: up to MaxResults
\* consecutive entries of a list with a recent posting, one without a date
\* whose URL differs in case only, and one posted "yesterday"
JobsItem(t, u, posted) ==
    [title |-> t, link |-> Some(u), opts |-> TRUE,
     posted_at |-> posted, desc |-> Absent, sched |-> Absent]
UpstreamJobs ==
    <<JobsItem("t1", U_x1, Some(<<"1"," ","d","a","y"," ","a","g","o">>)),
      JobsItem("t2", U_X1, Absent),
      JobsItem("t1", U_x2, Some(P_yesterday))>>
JobsLists ==
    {[i \in 1..n |-> UpstreamJobs[((from + i - 2) % 3) + 1]] :
        from \in 1..3, n \in 0..MaxResults}

JobsResponseSeqs ==
    {Append(f, RespOk(b)) : f \in FailedAttempts,
                            b \in {EmptyJson, NoOrganicJson} \cup {JobsJson(js) : js \in JobsLists}}
        \cup ExhaustedAttempts

\* what serpapi_jobs_search can return to run_for_job, and whether it sent a
\* request
SerpJobsReturns ==
    {[json |-> serpapi_jobs_search(responses).json,
      requested |-> serpapi_jobs_search(responses).requests > 0] :
        responses \in JobsResponseSeqs}

\* cfg["days_back"] of the runs
RunDaysBack == 7

\* ------------------------------------------------------------------------
\* jobSearchByTitle.main and run_for_job
\* ------------------------------------------------------------------------
T_DA == <<"D"," ","A">>
T_DAx == <<"D","A">>
T_QA == <<"Q","A">>

\* job_title.replace(" ", "")
RECURSIVE remove_spaces(_)
remove_spaces(t) ==
    IF t = <<>> THEN <<>>
    ELSE (IF Head(t) = " " THEN <<>> ELSE <<Head(t)>>) \o remove_spaces(Tail(t))

job_slug(title) == remove_spaces(title)

\* job_slug[:31]
sheet_name(title) == SubSeq(job_slug(title), 1, Min(31, Len(job_slug(title))))

\* valid_titles = [jt for jt in cfg["job_titles"] if jt and isinstance(jt, str)]
RECURSIVE valid_titles(_)
valid_titles(ts) ==
    IF ts = <<>> THEN <<>>
    ELSE (IF Head(ts) # <<>> THEN <<Head(ts)>> ELSE <<>>) \o valid_titles(Tail(ts))

\* del wb[sheet_name]
RECURSIVE without_sheet(_, _)
without_sheet(sheets, name) ==
    IF sheets = <<>> THEN <<>>
    ELSE (IF Head(sheets).name = name THEN <<>> ELSE <<Head(sheets)>>)
            \o without_sheet(Tail(sheets), name)

\* a workbook a previous run of the same day left on disk
PreviousWorkbook ==
    [exists |-> TRUE,
     sheets |-> <<[name |-> sheet_name(T_QA), rows |-> <<[title |-> "t0", url |-> U_x2]>>]>>]

\* cfg["job_titles"]: up to MaxTitles consecutive entries of a configured
\* list that holds two titles with the same slug and an invalid (empty) one
ConfiguredTitles == <<T_DA, T_DAx, <<>>, T_QA>>
TitleLists ==
    {[i \in 1..n |-> ConfiguredTitles[((from + i - 2) % 4) + 1]] :
        from \in 1..4, n \in 0..MaxTitles}

SiteLists == {SubSeq(<<"a.com", "b.com", "c.com", "d.com">>, 1, n) : n \in 0..MaxRunSites}

Scripts == {"jobSearchByTitle", "filteredJobsByTitle"}

Init ==
    /\ pc = "main"
    /\ script \in Scripts
    /\ serpapi_key \in BOOLEAN
    /\ IF script = "jobSearchByTitle"
       THEN /\ sites \in SiteLists
            /\ chunk_size \in 1..2
            /\ job_titles \in TitleLists
       ELSE /\ sites = <<>>
            /\ chunk_size = 1
            /\ job_titles \in {t \in TitleLists : \A i \in 1..Len(t) : t[i] # <<>>}
    /\ job_title = <<>> /\ site_chunks = <<>> /\ idx = 0
    /\ collected_jobs = <<>> /\ chunk_outputs = <<>> /\ unique = <<>>
    /\ queries_accumulator = <<>>
    /\ txt_files = NoFiles
    /\ wb = NoWorkbook
    /\ excel_file \in {NoWorkbook, PreviousWorkbook}
    /\ fetched = FALSE /\ completed = <<>>
    /\ idleButRun

\* a main that goes on without the SERPAPI_KEY
Main_nokey ==
    /\ pc = "main" /\ script = "jobSearchByTitle"
    /\ pc' = "titles"
    /\ wb' = excel_file
    /\ job_titles' = valid_titles(job_titles)
    /\ UNCHANGED <<serpapi_key, sites, chunk_size, job_title, site_chunks, idx,
                   collected_jobs, chunk_outputs, unique, queries_accumulator, txt_files,
                   excel_file, script, fetched, completed, othersRun>>

\* jobSearchByTitle.main, up to the loop over the titles: a missing
\* SERPAPI_KEY raises
Main ==
    /\ pc = "main" /\ script = "jobSearchByTitle"
    /\ IF ~serpapi_key
       THEN /\ pc' = "raised"
            /\ UNCHANGED <<job_titles, wb>>
       ELSE /\ pc' = "titles"
            /\ wb' = excel_file
            /\ job_titles' = valid_titles(job_titles)
    /\ UNCHANGED <<serpapi_key, sites, chunk_size, job_title, site_chunks, idx,
                   collected_jobs, chunk_outputs, unique, queries_accumulator, txt_files,
                   excel_file, script, fetched, completed, othersRun>>

\* run_for_job, up to the loop over the chunks
RunForJob ==
    /\ pc = "titles" /\ script = "jobSearchByTitle" /\ job_titles # <<>>
    /\ job_title' = Head(job_titles)
    /\ job_titles' = Tail(job_titles)
    /\ site_chunks' = jsbt_chunk_list(sites, chunk_size)
    /\ idx' = 0
    /\ collected_jobs' = <<>> /\ chunk_outputs' = <<>>
    /\ pc' = "chunks"
    /\ UNCHANGED <<serpapi_key, sites, chunk_size, unique, queries_accumulator, txt_files,
                   wb, excel_file, script, fetched, completed, othersRun>>

\* one iteration of the loop over the chunks
SearchChunk ==
    /\ pc = "chunks" /\ site_chunks # <<>>
    /\ idx' = idx + 1
    /\ site_chunks' = Tail(site_chunks)
    /\ queries_accumulator' =
           Append(queries_accumulator,
                  [title |-> job_title, chunk |-> idx + 1, sites |-> Head(site_chunks)])
    /\ \E serp \in SerpReturns :
          /\ fetched' = (fetched \/ serp.requested)
          /\ IF serp.json.kind # "organic"
             THEN UNCHANGED <<collected_jobs, chunk_outputs>>
             ELSE LET jobs == jsbt_extract_jobs(serp.json.results)
                  IN /\ collected_jobs' = collected_jobs \o jobs
                     /\ chunk_outputs' = Append(chunk_outputs, jobs)
    /\ UNCHANGED <<pc, serpapi_key, sites, chunk_size, job_titles, job_title, unique,
                   txt_files, wb, excel_file, script, completed, othersRun>>

\* a run_for_job that writes the report and the sheet even without results
FinishJob_always ==
    /\ pc = "chunks" /\ site_chunks = <<>>
    /\ unique' = jsbt_remove_duplicates(collected_jobs)
    /\ LET name == sheet_name(job_title)
           kept == without_sheet(wb.sheets, name)
           slug == job_slug(job_title)
       IN /\ txt_files' = [f \in (DOMAIN txt_files) \cup {slug} |->
                               IF f = slug THEN unique' ELSE txt_files[f]]
          /\ wb' = [exists |-> TRUE,
                    sheets |-> Append(kept, [name |-> name, rows |-> unique'])]
          /\ excel_file' = wb'
          /\ completed' = Append(completed, [title |-> job_title, rows |-> unique'])
    /\ pc' = "titles"
    /\ UNCHANGED <<serpapi_key, sites, chunk_size, job_titles, job_title, site_chunks, idx,
                   collected_jobs, chunk_outputs, queries_accumulator, script, fetched,
                   othersRun>>

\* run_for_job after the loop: deduplicate, then write the text report and
\* the sheet and save the workbook, or skip all of it without results
FinishJob ==
    /\ pc = "chunks" /\ site_chunks = <<>>
    /\ unique' = jsbt_remove_duplicates(collected_jobs)
    /\ IF unique' = <<>>
       THEN UNCHANGED <<txt_files, wb, excel_file, completed>>
       ELSE LET name == sheet_name(job_title)
                kept == without_sheet(wb.sheets, name)
                slug == job_slug(job_title)
            IN /\ txt_files' = [f \in (DOMAIN txt_files) \cup {slug} |->
                                    IF f = slug THEN unique' ELSE txt_files[f]]
               /\ wb' = [exists |-> TRUE,
                         sheets |-> Append(kept, [name |-> name, rows |-> unique'])]
               /\ excel_file' = wb'
               /\ completed' = Append(completed, [title |-> job_title, rows |-> unique'])
    /\ pc' = "titles"
    /\ UNCHANGED <<serpapi_key, sites, chunk_size, job_titles, job_title, site_chunks, idx,
                   collected_jobs, chunk_outputs, queries_accumulator, script, fetched,
                   othersRun>>

\* main after the loop: the queries log is written
MainEnd ==
    /\ pc = "titles" /\ script = "jobSearchByTitle" /\ job_titles = <<>>
    /\ pc' = "done"
    /\ UNCHANGED <<serpapi_key, sites, chunk_size, job_titles, job_title, site_chunks, idx,
                   collected_jobs, chunk_outputs, unique, queries_accumulator, txt_files,
                   wb, excel_file, script, fetched, completed, othersRun>>

\* filteredJobsByTitle.main, up to the loop over the titles: a missing
\* SERPAPI_KEY raises; every configured title is processed
MainFiltered ==
    /\ pc = "main" /\ script = "filteredJobsByTitle"
    /\ IF ~serpapi_key
       THEN /\ pc' = "raised"
            /\ UNCHANGED wb
       ELSE /\ pc' = "titles"
            /\ wb' = excel_file
    /\ UNCHANGED <<serpapi_key, sites, chunk_size, job_titles, job_title, site_chunks, idx,
                   collected_jobs, chunk_outputs, unique, queries_accumulator, txt_files,
                   excel_file, script, fetched, completed, othersRun>>

\* filteredJobsByTitle.run_for_job: one query, serpapi_jobs_search,
\* extract_google_jobs (no job-type modes), remove_duplicates, then the text
\* report and the sheet, or neither without results; an exception of
\* extract_google_jobs leaves run_for_job and main
RunForJobFiltered ==
    /\ pc = "titles" /\ script = "filteredJobsByTitle" /\ job_titles # <<>>
    /\ job_title' = Head(job_titles)
    /\ job_titles' = Tail(job_titles)
    /\ queries_accumulator' =
           Append(queries_accumulator,
                  [title |-> Head(job_titles), chunk |-> 1, sites |-> <<>>])
    /\ \E serp \in SerpJobsReturns :
          LET r == IF serp.json.kind # "jobs"
                   THEN [raised |-> FALSE, jobs |-> <<>>]
                   ELSE fjbt_extract_google_jobs(serp.json.results, <<>>,
                                                 Today - RunDaysBack, Today)
              name == sheet_name(Head(job_titles))
              kept == without_sheet(wb.sheets, name)
              slug == job_slug(Head(job_titles))
          IN /\ fetched' = (fetched \/ serp.requested)
             /\ IF r.raised
                THEN /\ pc' = "raised"
                     /\ UNCHANGED <<collected_jobs, chunk_outputs, unique, txt_files, wb,
                                    excel_file, completed>>
                ELSE /\ pc' = "titles"
                     /\ collected_jobs' = r.jobs
                     /\ chunk_outputs' = <<r.jobs>>
                     /\ unique' = fjbt_remove_duplicates(r.jobs)
                     /\ IF unique' = <<>>
                        THEN UNCHANGED <<txt_files, wb, excel_file, completed>>
                        ELSE /\ txt_files' = [f \in (DOMAIN txt_files) \cup {slug} |->
                                                 IF f = slug THEN unique' ELSE txt_files[f]]
                             /\ wb' = [exists |-> TRUE,
                                       sheets |-> Append(kept, [name |-> name,
                                                                rows |-> unique'])]
                             /\ excel_file' = wb'
                             /\ completed' = Append(completed, [title |-> Head(job_titles),
                                                                rows |-> unique'])
    /\ UNCHANGED <<serpapi_key, sites, chunk_size, site_chunks, idx, script, othersRun>>

\* filteredJobsByTitle.main after the loop: the queries log is written
MainFilteredEnd ==
    /\ pc = "titles" /\ script = "filteredJobsByTitle" /\ job_titles = <<>>
    /\ pc' = "done"
    /\ UNCHANGED <<serpapi_key, sites, chunk_size, job_titles, job_title, site_chunks, idx,
                   collected_jobs, chunk_outputs, unique, queries_accumulator, txt_files,
                   wb, excel_file, script, fetched, completed, othersRun>>

Next ==
    \/ Main
    \/ RunForJob
    \/ SearchChunk
    \/ FinishJob
    \/ MainEnd
    \/ MainFiltered
    \/ RunForJobFiltered
    \/ MainFilteredEnd

Spec == Init /\ [][Next]_vars

\* the queries run_for_job issued for a title
RECURSIVE QueriesFor(_, _)
QueriesFor(queries, title) ==
    IF queries = <<>> THEN 0
    ELSE (IF Head(queries).title = title THEN 1 ELSE 0) + QueriesFor(Tail(queries), title)

\* C3: with an empty site list exactly one chunk (with no sites) is planned
\* for a job title, so exactly one upstream query is issued for it.
C3_EmptySitesOneQuery ==
    (pc \in {"titles", "done"} /\ job_title # <<>> /\ sites = <<>>) =>
        QueriesFor(queries_accumulator, job_title) = 1

\* a step that ends the processing of a title: the end of run_for_job in
\* jobSearchByTitle, the whole run_for_job in filteredJobsByTitle (unless it
\* raised)
TitleEnds ==
    \/ pc = "chunks" /\ site_chunks = <<>>
    \/ pc = "titles" /\ script = "filteredJobsByTitle" /\ job_titles # <<>> /\ pc' # "raised"

HasSheet(book, title, rows) ==
    \E k \in 1..Len(book.sheets) :
        book.sheets[k].name = sheet_name(title) /\ book.sheets[k].rows = rows

C19_EarlierSheetsKept ==
    \A i \in 1..Len(completed) :
        (\A j \in (i + 1)..Len(completed) : completed[j].title # completed[i].title) =>
            HasSheet(excel_file, completed[i].title, completed[i].rows)

\* C20: without the API credential the run aborts before any request is
\* sent upstream: no query is planned and no fetch is attempted.
C20_NoKeyNoFetch ==
    ~serpapi_key => (~fetched /\ queries_accumulator = <<>> /\ pc \in {"main", "raised"})

C20_Witness ==
    pc = "raised" /\ ~serpapi_key /\ ~fetched /\ job_titles # <<>>

\* ------------------------------------------------------------------------
\* searchJobsByTitle_bck.search_jobs
\* ------------------------------------------------------------------------
\* max_pages=3
max_pages == 3

\* the pages of one call: every page is an HTTP error, another exception,
\* or a body with jobs_results and possibly a next_page_token
RECURSIVE bck_search_pages(_, _, _, _)
bck_search_pages(pages, page_num, next_page_token, out) ==
    IF page_num > max_pages THEN out
    ELSE LET r == pages[page_num]
             sent == [out EXCEPT !.requests = @ + 1,
                                 !.tokens = Append(@, next_page_token)]
         IN IF r.kind # "ok" THEN sent
            ELSE IF r.jobs = <<>> THEN sent
            ELSE LET got == [sent EXCEPT !.results = @ \o r.jobs]
                 IN IF ~r.token.has \/ r.token.val = <<>> THEN got
                    ELSE bck_search_pages(pages, page_num + 1, r.token,
                                          [got EXCEPT !.sleeps = Append(@, 2)])

\* a search_jobs that asks for the next page even without a token
RECURSIVE bck_search_pages_eager(_, _, _, _)
bck_search_pages_eager(pages, page_num, next_page_token, out) ==
    IF page_num > max_pages THEN out
    ELSE LET r == pages[page_num]
             sent == [out EXCEPT !.requests = @ + 1,
                                 !.tokens = Append(@, next_page_token)]
         IN IF r.kind # "ok" THEN sent
            ELSE IF r.jobs = <<>> THEN sent
            ELSE bck_search_pages_eager(pages, page_num + 1, r.token,
                                        [sent EXCEPT !.results = @ \o r.jobs,
                                                     !.sleeps = Append(@, 2)])

bck_search_jobs_eager(pages) ==
    bck_search_pages_eager(pages, 1, Absent,
                     [results |-> <<>>, requests |-> 0, tokens |-> <<>>, sleeps |-> <<>>])

bck_search_jobs(pages) ==
    bck_search_pages(pages, 1, Absent,
                     [results |-> <<>>, requests |-> 0, tokens |-> <<>>, sleeps |-> <<>>])

P_1day == <<"1"," ","d","a","y"," ","a","g","o">>
P_3months == <<"3"," ","m","o","n","t","h","s"," ","a","g","o">>

\* the jobs_results upstream may return: a recent posting and an old one
BckItems ==
    { [title |-> "t1", link |-> Some(U_x1), opts |-> TRUE, posted_at |-> Some(P_1day),
       desc |-> Absent, sched |-> Absent],
      [title |-> "t2", link |-> Some(U_X1), opts |-> FALSE, posted_at |-> Some(P_3months),
       desc |-> Absent, sched |-> Absent] }

MaxPageJobs == 1

ErrorPages == {[kind |-> k, jobs |-> <<>>, token |-> Absent] : k \in {"http_error", "exception"}}

PageBodies ==
    [kind : {"ok"}, jobs : SeqsUpTo(BckItems, MaxPageJobs),
     token : {Absent, Some(<<"n","e","x","t">>)}] \cup ErrorPages

\* a page after which search_jobs fetches the next one
Continues(page) == page.kind = "ok" /\ page.jobs # <<>> /\ page.token.has

\* what upstream answers to the pages of one call; the pages search_jobs
\* never asks for are left as the error page
PageSeqs ==
    {p \in [1..max_pages -> PageBodies] :
        \A k \in 2..max_pages :
            (\E j \in 1..(k - 1) : ~Continues(p[j])) => p[k].kind = "http_error"}

\* [job for job in raw_results if is_posted_within_window(job, time_window_str)]
RECURSIVE bck_filter(_, _)
bck_filter(raw_results, time_window_str) ==
    IF raw_results = <<>> THEN <<>>
    ELSE (IF is_posted_within_window(Head(raw_results).posted_at, time_window_str).kind = "true"
          THEN <<Head(raw_results)>> ELSE <<>>)
            \o bck_filter(Tail(raw_results), time_window_str)

BckWindows == {"24h", "7d"}

\* what main can get from search_jobs and keep after the time filter, by
\* time window
FilteredReturns ==
    [w \in BckWindows |-> {bck_filter(bck_search_jobs(pages).results, w) : pages \in PageSeqs}]

\* write_results: job.get("apply_options", [{}])[0].get("link", job.get("link", "N/A"))
bck_written_url(job) == get(job.link, S_NA)

\* job_title.replace(' ', '_').lower()
bck_file_name(title) == lower([i \in 1..Len(title) |-> IF title[i] = " " THEN "_" ELSE title[i]])

\* chunk_list(ats_domains, 50)
ChunkLimit == 50

DomainCounts == {0, 1, ChunkLimit + 1}
DomainList(n) == [i \in 1..n |-> i]

InitBck ==
    /\ bk_pc = "main"
    /\ bk_key \in BOOLEAN
    /\ bk_cfg \in {"ok", "missing"}
    /\ bk_titles \in {t \in TitleLists : \A i \in 1..Len(t) : t[i] # <<>>}
    /\ bk_regions \in {<<>>, <<"United States">>}
    /\ bk_domains \in {DomainList(n) : n \in DomainCounts}
    /\ bk_window \in BckWindows
    /\ bk_job_title = <<>> /\ bk_chunks = <<>> /\ bk_all_filtered = <<>>
    /\ bk_chunk_outputs = <<>> /\ bk_queries = <<>> /\ bk_files = NoFiles
    /\ idleButBck

\* main, up to the loop over the titles
BckMain ==
    /\ bk_pc = "main"
    /\ IF \/ ~bk_key
          \/ bk_cfg = "missing"
          \/ bk_titles = <<>>
          \/ (bk_regions = <<>> /\ bk_domains = <<>>)
       THEN bk_pc' = "returned"
       ELSE bk_pc' = "titles"
    /\ UNCHANGED <<bk_key, bk_cfg, bk_titles, bk_regions, bk_domains, bk_window,
                   bk_job_title, bk_chunks, bk_all_filtered, bk_chunk_outputs, bk_queries,
                   bk_files, othersBck>>

\* the start of one iteration over the titles: the domain chunks
BckStartTitle ==
    /\ bk_pc = "titles" /\ bk_titles # <<>>
    /\ bk_job_title' = Head(bk_titles)
    /\ bk_titles' = Tail(bk_titles)
    /\ bk_chunks' = IF bck_chunk_list(bk_domains, ChunkLimit) = <<>>
                    THEN << <<>> >>
                    ELSE bck_chunk_list(bk_domains, ChunkLimit)
    /\ bk_all_filtered' = <<>> /\ bk_chunk_outputs' = <<>>
    /\ bk_pc' = "chunks"
    /\ UNCHANGED <<bk_key, bk_cfg, bk_regions, bk_domains, bk_window, bk_queries, bk_files,
                   othersBck>>

\* one iteration over the domain chunks: search, filter, accumulate
BckSearchChunk ==
    /\ bk_pc = "chunks" /\ bk_chunks # <<>>
    /\ bk_chunks' = Tail(bk_chunks)
    /\ bk_queries' = Append(bk_queries, [title |-> bk_job_title, regions |-> bk_regions,
                                         domains |-> Head(bk_chunks)])
    /\ \E filtered \in FilteredReturns[bk_window] :
          /\ bk_all_filtered' = bk_all_filtered \o filtered
          /\ bk_chunk_outputs' = Append(bk_chunk_outputs, filtered)
    /\ UNCHANGED <<bk_pc, bk_key, bk_cfg, bk_titles, bk_regions, bk_domains, bk_window,
                   bk_job_title, bk_files, othersBck>>

\* the end of the iteration: write_results, unless nothing was found
BckFinishTitle ==
    /\ bk_pc = "chunks" /\ bk_chunks = <<>>
    /\ IF bk_all_filtered = <<>>
       THEN UNCHANGED bk_files
       ELSE LET name == bck_file_name(bk_job_title)
            IN bk_files' = [f \in (DOMAIN bk_files) \cup {name} |->
                               IF f = name THEN bk_all_filtered ELSE bk_files[f]]
    /\ bk_pc' = "titles"
    /\ UNCHANGED <<bk_key, bk_cfg, bk_titles, bk_regions, bk_domains, bk_window,
                   bk_job_title, bk_chunks, bk_all_filtered, bk_chunk_outputs, bk_queries,
                   othersBck>>

BckEnd ==
    /\ bk_pc = "titles" /\ bk_titles = <<>>
    /\ bk_pc' = "done"
    /\ UNCHANGED <<bk_key, bk_cfg, bk_titles, bk_regions, bk_domains, bk_window,
                   bk_job_title, bk_chunks, bk_all_filtered, bk_chunk_outputs, bk_queries,
                   bk_files, othersBck>>

NextBck ==
    \/ BckMain
    \/ BckStartTitle
    \/ BckSearchChunk
    \/ BckFinishTitle
    \/ BckEnd

SpecBck == InitBck /\ [][NextBck]_vars

\* the postings a report of searchJobsByTitle_bck holds, by their URL
WrittenPostings(jobs) ==
    [i \in 1..Len(jobs) |-> [title |-> jobs[i].title, url |-> bck_written_url(jobs[i])]]

\* C1: what is written for a job title is the stable first-occurrence
\* deduplication (by lower-cased, trimmed URL) of the concatenated chunk
\* outputs, so no posting URL is written twice for a title.
C1_WrittenIsDeduplicated ==
    (/\ bk_pc \in {"titles", "done"} /\ bk_job_title # <<>>
     /\ bck_file_name(bk_job_title) \in DOMAIN bk_files) =>
        WrittenPostings(bk_files[bck_file_name(bk_job_title)])
            = StableDedup(WrittenPostings(Flatten(bk_chunk_outputs)))

\* jobSearchByTitle.run_for_job does hand the writers the stable
\* deduplication of the concatenated chunk outputs.
RunForJobWritesDeduplicated ==
    (pc \in {"titles", "done"} /\ job_title # <<>>) =>
        /\ unique = StableDedup(Flatten(chunk_outputs))
        /\ unique # <<>> =>
              /\ txt_files[job_slug(job_title)] = unique
              /\ excel_file.sheets[Len(excel_file.sheets)].rows = unique

\* ------------------------------------------------------------------------
\* The retrying fetch on its own
\* ------------------------------------------------------------------------
\* what upstream answers to the max_retries attempts of one call
AttemptResponses == {Resp429, RespError, RespOk(EmptyJson), RespOk(OrganicJson(<<RunItem(U_x1)>>))}

InitRetry ==
    /\ rt_fn \in {"serpapi_search", "serpapi_jobs_search"}
    /\ rt_responses \in [1..max_retries -> AttemptResponses]
    /\ rt_out = <<>>
    /\ rt_pc = "start"
    /\ idleButRt

SerpapiSearch ==
    /\ rt_pc = "start" /\ rt_fn = "serpapi_search"
    /\ rt_out' = serpapi_search(rt_responses)
    /\ rt_pc' = "done"
    /\ UNCHANGED <<rt_fn, rt_responses, othersRt>>

SerpapiJobsSearch ==
    /\ rt_pc = "start" /\ rt_fn = "serpapi_jobs_search"
    /\ rt_out' = serpapi_jobs_search(rt_responses)
    /\ rt_pc' = "done"
    /\ UNCHANGED <<rt_fn, rt_responses, othersRt>>

NextRetry ==
    \/ SerpapiSearch
    \/ SerpapiJobsSearch

SpecRetry == InitRetry /\ [][NextRetry]_vars

\* the number of consecutive 429 responses that end with attempt k
RECURSIVE Consecutive429(_, _)
Consecutive429(responses, k) ==
    IF k = 0 \/ responses[k].kind # "429" THEN 0
    ELSE 1 + Consecutive429(responses, k - 1)

\* the attempts stop at max_retries, and max_retries 429 responses end in
\* None being returned
BoundedAttempts ==
    /\ rt_out.requests <= max_retries
    /\ Len(rt_out.sleeps) <= max_retries
    /\ (\A k \in 1..max_retries : rt_responses[k].kind = "429") =>
          (rt_out.json = NoneJson /\ rt_out.requests = max_retries)

\* C16 as stated: the k-th consecutive rate-limited attempt waits 5 * k
\* seconds; at most max_retries attempts are made, and after max_retries
\* 429 responses the fetcher returns without raising.
C16_ConsecutiveBackoff ==
    rt_pc = "done" =>
        /\ BoundedAttempts
        /\ \A k \in 1..Len(rt_out.sleeps) :
              rt_responses[k].kind = "429" =>
                  rt_out.sleeps[k] = 5 * Consecutive429(rt_responses, k)

\* C16 amended: a rate-limited attempt waits 5 seconds times its attempt
\* number (failed attempts of any kind count); at most max_retries attempts
\* are made, and after max_retries 429 responses the fetcher returns None.
C16_AttemptBackoff ==
    rt_pc = "done" =>
        /\ BoundedAttempts
        /\ \A k \in 1..Len(rt_out.sleeps) :
              rt_responses[k].kind = "429" => rt_out.sleeps[k] = 5 * k

C16_Witness ==
    /\ rt_pc = "done" /\ rt_fn = "serpapi_search"
    /\ \A k \in 1..max_retries : rt_responses[k].kind = "429"
    /\ rt_out.sleeps = <<5, 10, 15, 20, 25>>
    /\ rt_out.json = NoneJson

\* C17: other transient failures (timeout, malformed JSON, 5xx) are retried
\* on the same backoff schedule and with the same attempt limit as a 429,
\* and the query is abandoned without an exception once they are exhausted.
C17_SameSchedule ==
    rt_pc = "done" =>
        /\ rt_out.requests <= max_retries
        /\ (\A k \in 1..max_retries : rt_responses[k].kind \in {"429", "error"}) =>
              (rt_out.json = NoneJson /\ rt_out.requests = max_retries)
        /\ \A k \in 1..Len(rt_out.sleeps) :
              rt_responses[k].kind = "error" => rt_out.sleeps[k] = 5 * k

\* ------------------------------------------------------------------------
\* The paginated fetch on its own
\* ------------------------------------------------------------------------
\* searchJobsByTitleAndRegion_bck.search_jobs: a status other than 200 ends
\* the loop, an exception of requests.get or r.json() leaves the function,
\* and the jobs of a page are filtered before they are accumulated
RECURSIVE region_filter(_, _)
region_filter(jobs, max_hours) ==
    IF jobs = <<>> THEN <<>>
    ELSE (IF within_time_window(get(Head(jobs).posted_at, <<>>), max_hours).kind = "true"
          THEN <<Head(jobs)>> ELSE <<>>)
            \o region_filter(Tail(jobs), max_hours)

RECURSIVE region_search_pages(_, _, _, _, _)
region_search_pages(pages, page_num, next_page_token, max_hours, out) ==
    IF page_num > max_pages THEN out
    ELSE LET r == pages[page_num]
             sent == [out EXCEPT !.requests = @ + 1,
                                 !.tokens = Append(@, next_page_token)]
         IN IF r.kind = "exception" THEN [sent EXCEPT !.raised = TRUE, !.results = <<>>]
            ELSE IF r.kind # "ok" THEN sent
            ELSE IF r.jobs = <<>> THEN sent
            ELSE LET got == [sent EXCEPT !.results = @ \o region_filter(r.jobs, max_hours)]
                 IN IF ~r.token.has \/ r.token.val = <<>> THEN got
                    ELSE region_search_pages(pages, page_num + 1, r.token, max_hours,
                                             [got EXCEPT !.sleeps = Append(@, 2)])

\* a search_jobs that keeps sending the first continuation token it received
RECURSIVE region_search_pages_stale(_, _, _, _, _)
region_search_pages_stale(pages, page_num, next_page_token, max_hours, out) ==
    IF page_num > max_pages THEN out
    ELSE LET r == pages[page_num]
             sent == [out EXCEPT !.requests = @ + 1,
                                 !.tokens = Append(@, next_page_token)]
         IN IF r.kind = "exception" THEN [sent EXCEPT !.raised = TRUE, !.results = <<>>]
            ELSE IF r.kind # "ok" THEN sent
            ELSE IF r.jobs = <<>> THEN sent
            ELSE LET got == [sent EXCEPT !.results = @ \o region_filter(r.jobs, max_hours)]
                 IN IF ~r.token.has \/ r.token.val = <<>> THEN got
                    ELSE region_search_pages_stale(pages, page_num + 1,
                                                   IF next_page_token.has THEN next_page_token
                                                   ELSE r.token,
                                                   max_hours,
                                                   [got EXCEPT !.sleeps = Append(@, 2)])

region_search_jobs_stale(pages, max_hours) ==
    region_search_pages_stale(pages, 1, Absent, max_hours,
                              [results |-> <<>>, requests |-> 0, tokens |-> <<>>,
                               sleeps |-> <<>>, raised |-> FALSE])

region_search_jobs(pages, max_hours) ==
    region_search_pages(pages, 1, Absent, max_hours,
                        [results |-> <<>>, requests |-> 0, tokens |-> <<>>, sleeps |-> <<>>,
                         raised |-> FALSE])

\* the pages upstream may answer with, an empty next_page_token included
FetchPages ==
    PageBodies \cup [kind : {"ok"}, jobs : SeqsUpTo(BckItems, MaxPageJobs),
                     token : {Some(<<>>), Some(<<"n","2">>)}]

InitPages ==
    /\ pg_variant \in {"searchJobsByTitle_bck", "searchJobsByTitleAndRegion_bck"}
    /\ pg_pages \in [1..max_pages -> FetchPages]
    /\ pg_out = <<>>
    /\ pg_pc = "start"
    /\ idleButPg

SearchJobsTitle ==
    /\ pg_pc = "start" /\ pg_variant = "searchJobsByTitle_bck"
    /\ pg_out' = bck_search_jobs(pg_pages)
    /\ pg_pc' = "done"
    /\ UNCHANGED <<pg_variant, pg_pages, othersPg>>

\* main calls search_jobs(job_title, region, max_pages=3, max_hours=hours_limit)
SearchJobsRegion ==
    /\ pg_pc = "start" /\ pg_variant = "searchJobsByTitleAndRegion_bck"
    /\ pg_out' = region_search_jobs(pg_pages, parse_time_window("24h"))
    /\ pg_pc' = "done"
    /\ UNCHANGED <<pg_variant, pg_pages, othersPg>>

NextPages ==
    \/ SearchJobsTitle
    \/ SearchJobsRegion

SpecPages == InitPages /\ [][NextPages]_vars

\* a page after which no further page is asked for: a failed request, zero
\* results, or no continuation token
Terminal(page) ==
    page.kind # "ok" \/ page.jobs = <<>> \/ ~page.token.has \/ page.token.val = <<>>

StopPage(pages) ==
    IF \E k \in 1..max_pages : Terminal(pages[k])
    THEN CHOOSE k \in 1..max_pages :
            Terminal(pages[k]) /\ \A j \in 1..(k - 1) : ~Terminal(pages[j])
    ELSE max_pages

\* C15: a paginated fetch sends exactly max_pages requests when every page
\* has results and a continuation token, exactly one when the first page has
\* zero results, and in general stops at the first page with zero results or
\* no token; it never sends more than max_pages requests.
C15_PaginationStops ==
    pg_pc = "done" =>
        /\ pg_out.requests <= max_pages
        /\ pg_out.requests = StopPage(pg_pages)
        /\ (\A k \in 1..max_pages : ~Terminal(pg_pages[k])) => pg_out.requests = max_pages
        /\ (pg_pages[1].kind = "ok" /\ pg_pages[1].jobs = <<>>) => pg_out.requests = 1

C15_Witness ==
    /\ pg_pc = "done"
    /\ \A k \in 1..max_pages : ~Terminal(pg_pages[k])
    /\ pg_out.requests = max_pages
    /\ Len(pg_out.sleeps) = max_pages

\* C23: the first request of a paginated fetch carries no continuation
\* token, the (k+1)-th request carries exactly the token of the k-th
\* response (never the token of an earlier page), and no request follows a
\* response without a token.
C23_TokenChain ==
    pg_pc = "done" =>
        /\ Len(pg_out.tokens) = pg_out.requests
        /\ pg_out.requests >= 1
        /\ pg_out.tokens[1] = Absent
        /\ \A k \in 1..(pg_out.requests - 1) :
              /\ pg_pages[k].kind = "ok"
              /\ pg_pages[k].token.has /\ pg_pages[k].token.val # <<>>
              /\ pg_out.tokens[k + 1] = pg_pages[k].token

C23_Witness ==
    /\ pg_pc = "done" /\ pg_variant = "searchJobsByTitleAndRegion_bck"
    /\ pg_out.requests = max_pages
    /\ pg_pages[1].token # pg_pages[2].token
    /\ pg_out.tokens = <<Absent, pg_pages[1].token, pg_pages[2].token>>

\* ------------------------------------------------------------------------
\* The result filters
\* ------------------------------------------------------------------------
MaxFilterJobs == 2

\* str.split(sep)
RECURSIVE split_sep_loop(_, _, _, _)
split_sep_loop(s, sep, cur, out) ==
    IF s = <<>> THEN Append(out, cur)
    ELSE IF Head(s) = sep THEN split_sep_loop(Tail(s), sep, <<>>, Append(out, cur))
    ELSE split_sep_loop(Tail(s), sep, Append(cur, Head(s)), out)

split_sep(s, sep) == split_sep_loop(s, sep, <<>>, <<>>)

\* cfg["job_type"]["include_keywords"] of the runs, and .get(mode, [])
IncludeKeywords(mode) ==
    CASE mode = <<"c","o","n","t","r","a","c","t">> -> << <<"C","o","n","t","r","a","c","t">>, <<"C","2","C">> >>
      [] mode = <<"f","u","l","l","t","i","m","e">> -> << <<"F","u","l","l","-","t","i","m","e">> >>
      [] OTHER -> <<>>

\* selected_keywords.extend([kw.lower() for kw in kw_list]) for each mode
RECURSIVE extend_keywords(_, _)
extend_keywords(modes, selected_keywords) ==
    IF modes = <<>> THEN selected_keywords
    ELSE LET kw_list == IncludeKeywords(Head(modes))
         IN extend_keywords(Tail(modes),
                            selected_keywords \o [i \in 1..Len(kw_list) |-> lower(kw_list[i])])

\* [m.strip() for m in modes_str.split(",") if m.strip()]
RECURSIVE stripped_modes(_)
stripped_modes(parts) ==
    IF parts = <<>> THEN <<>>
    ELSE (IF strip(Head(parts)) # <<>> THEN <<strip(Head(parts))>> ELSE <<>>)
            \o stripped_modes(Tail(parts))

\* filteredJobsByTitle.get_selected_jobtype_keywords
get_selected_jobtype_keywords(modes0) ==
    LET modes_str == strip(lower(modes0))
    IN IF modes_str = <<>> THEN <<>>
       ELSE extend_keywords(stripped_modes(split_sep(modes_str, ",")), <<>>)

\* cfg["job_type"]["modes"]
ModeStrings == { <<>>, <<"C","o","n","t","r","a","c","t">>, <<"c","o","n","t","r","a","c","t",","," ","F","u","l","l","T","i","m","e">>, <<"i","n","t","e","r","n">> }

PosTitles == <<"p1", "p2", "p3", "p4">>

\* "1 day ago", "2 days ago"
AgoText(n, unit) ==
    ToDigits(n) \o <<" ">> \o unit \o (IF n = 1 THEN <<>> ELSE <<"s">>) \o W_ago

PatternCase(n, unit, word) ==
    [src |-> [kind |-> "pattern", n |-> n, unit |-> unit],
     posted_at |-> Some(AgoText(n, word)), desc |-> Absent, sched |-> Absent]
OtherCase(posted_at) ==
    [src |-> [kind |-> "other", n |-> 0, unit |-> ""],
     posted_at |-> posted_at, desc |-> Absent, sched |-> Absent]
KeywordCase(desc, sched) ==
    [src |-> [kind |-> "pattern", n |-> 1, unit |-> "day"],
     posted_at |-> Some(AgoText(1, W_day)), desc |-> desc, sched |-> sched]

\* the upstream records: recency texts around the window bounds of one and
\* of seven days, texts without a date, and recent records that differ in
\* description and schedule type
FilterCases ==
    {PatternCase(n, "day", W_day) : n \in {0, 1, 2, 7, 8}}
        \cup {PatternCase(n, "week", W_week) : n \in {1, 2}}
        \cup {PatternCase(n, "hour", W_hour) : n \in {1, 25}}
        \cup {PatternCase(5, "minute", W_minute), PatternCase(1, "month", W_month)}
        \cup {OtherCase(Some(<<"b","a","n","a","n","a">>)), OtherCase(Absent), OtherCase(Some(P_yesterday))}
        \cup {KeywordCase(Some(<<"C","O","N","T","R","A","C","T"," ","r","o","l","e">>), Absent),
              KeywordCase(Some(<<"p","e","r","m">>), Some(<<"F","u","l","l","-","t","i","m","e">>)),
              KeywordCase(Some(<<"p","e","r","m">>), Absent),
              KeywordCase(Absent, Some(<<"C","o","n","t","r","a","c","t","o","r">>))}

FilterVariants == {"filteredJobsByTitle", "searchJobsByTitle_bck", "searchJobsByTitleAndRegion_bck"}

InitFilter ==
    /\ fl_variant \in FilterVariants
    /\ \E cases \in SeqsUpTo(FilterCases, MaxFilterJobs) :
          /\ fl_src = [i \in 1..Len(cases) |-> cases[i].src]
          /\ fl_items = [i \in 1..Len(cases) |->
                            [title |-> PosTitles[i], link |-> Some(U_x1), opts |-> TRUE,
                             posted_at |-> cases[i].posted_at, desc |-> cases[i].desc,
                             sched |-> cases[i].sched]]
    /\ fl_modes \in IF fl_variant = "filteredJobsByTitle" THEN ModeStrings ELSE {<<>>}
    /\ \/ fl_window = "24h" /\ fl_days_back = 1
       \/ fl_window = "7d" /\ fl_days_back = 7
    /\ fl_out = <<>>
    /\ fl_pc = "start"
    /\ idleButFl

\* filteredJobsByTitle.extract_google_jobs on results["jobs_results"]
FilterGoogleJobs ==
    /\ fl_pc = "start" /\ fl_variant = "filteredJobsByTitle"
    /\ LET r == fjbt_extract_google_jobs(fl_items, get_selected_jobtype_keywords(fl_modes),
                                         Today - fl_days_back, Today)
       IN IF r.raised
          THEN fl_pc' = "raised" /\ fl_out' = <<>>
          ELSE fl_pc' = "done" /\ fl_out' = r.jobs
    /\ UNCHANGED <<fl_variant, fl_src, fl_items, fl_modes, fl_window, fl_days_back, othersFl>>

\* searchJobsByTitle_bck.main: the filter over raw_results
FilterBckTitle ==
    /\ fl_pc = "start" /\ fl_variant = "searchJobsByTitle_bck"
    /\ fl_out' = bck_filter(fl_items, fl_window)
    /\ fl_pc' = "done"
    /\ UNCHANGED <<fl_variant, fl_src, fl_items, fl_modes, fl_window, fl_days_back, othersFl>>

\* searchJobsByTitleAndRegion_bck.search_jobs: the filter over the jobs of a
\* page, with max_hours = parse_time_window(cfg time_window)
FilterBckRegion ==
    /\ fl_pc = "start" /\ fl_variant = "searchJobsByTitleAndRegion_bck"
    /\ fl_out' = region_filter(fl_items, parse_time_window(fl_window))
    /\ fl_pc' = "done"
    /\ UNCHANGED <<fl_variant, fl_src, fl_items, fl_modes, fl_window, fl_days_back, othersFl>>

NextFilter ==
    \/ FilterGoogleJobs
    \/ FilterBckTitle
    \/ FilterBckRegion

SpecFilter == InitFilter /\ [][NextFilter]_vars

\* the i-th upstream record is in the filtered output
Kept(i) == \E k \in 1..Len(fl_out) : fl_out[k].title = PosTitles[i]

\* C12: a posting whose recency text resolves to "unknown" never appears in
\* the filtered output, in any pipeline variant.
C12_UnknownExcluded ==
    fl_pc = "done" => \A i \in 1..Len(fl_items) : fl_src[i].kind = "other" => ~Kept(i)

\* C13: without keyword filtering a posting passes iff its resolved date is
\* not before the cutoff (reference date minus window): a posting resolved to
\* exactly the cutoff passes, one a day older is rejected.
C13_WindowBoundary ==
    (fl_pc = "done" /\ get_selected_jobtype_keywords(fl_modes) = <<>>) =>
        \A i \in 1..Len(fl_items) :
            (fl_src[i].kind = "pattern" /\ fl_src[i].unit \in {"hour", "minute", "day", "week"}) =>
                (Kept(i) <=> ExpectedDay(fl_src[i], Today) >= Today - fl_days_back)

\* keyword kw is a case-insensitive substring of text
InsensitiveSubstring(kw, text) == contains(lower(text), lower(kw))

PassesKeywords(item, keyword_set) ==
    \/ keyword_set = <<>>
    \/ \E j \in 1..Len(keyword_set) :
          \/ InsensitiveSubstring(keyword_set[j], get(item.desc, <<>>))
          \/ InsensitiveSubstring(keyword_set[j], get(item.sched, <<>>))

\* the titles of the records of a sequence, in order
TitlesOf(jobs) == [k \in 1..Len(jobs) |-> jobs[k].title]

RECURSIVE KeywordPassers(_, _, _)
KeywordPassers(items, time_passers, keyword_set) ==
    IF items = <<>> THEN <<>>
    ELSE (IF /\ \E k \in 1..Len(time_passers) : time_passers[k] = Head(items).title
             /\ PassesKeywords(Head(items), keyword_set)
          THEN <<Head(items).title>> ELSE <<>>)
            \o KeywordPassers(Tail(items), time_passers, keyword_set)

KeywordFilterExact(items, modes, days_back, out) ==
    TitlesOf(out) =
        KeywordPassers(items,
                       TitlesOf(fjbt_extract_google_jobs(items, <<>>, Today - days_back,
                                                         Today).jobs),
                       get_selected_jobtype_keywords(modes))

\* C14: with a non-empty selected keyword set a posting passes the keyword
\* filter iff some keyword is a case-insensitive substring of its description
\* or of its job-type field; with an empty set every posting passes; the
\* filter keeps the input order and leaves the input records as they are.
C14_KeywordFilter ==
    [][(fl_variant = "filteredJobsByTitle" /\ fl_pc' = "done") =>
          /\ fl_items' = fl_items
          /\ KeywordFilterExact(fl_items, fl_modes, fl_days_back, fl_out')]_vars

C14_Witness ==
    /\ fl_pc = "done" /\ fl_variant = "filteredJobsByTitle"
    /\ fl_modes = <<"c","o","n","t","r","a","c","t",","," ","F","u","l","l","T","i","m","e">>
    /\ Len(fl_items) = 2 /\ TitlesOf(fl_out) = <<"p2">>
    /\ fl_items[1].desc = Some(<<"p","e","r","m">>) /\ fl_items[1].sched = Absent
    /\ fl_items[2].desc = Some(<<"p","e","r","m">>) /\ fl_items[2].sched = Some(<<"F","u","l","l","-","t","i","m","e">>)

\* ------------------------------------------------------------------------
\* Query planning
\* ------------------------------------------------------------------------
MaxQueryTerms == 2

\* sep.join(parts)
RECURSIVE join(_, _)
join(sep, parts) ==
    IF parts = <<>> THEN <<>>
    ELSE IF Len(parts) = 1 THEN parts[1]
    ELSE parts[1] \o sep \o join(sep, Tail(parts))

S_OR == <<" ","O","R"," ">>

\* f'"{x}"'
quoted(x) == <<"\"">> \o x \o <<"\"">>

\* [f'"{k}"' for k in terms]
quoted_all(terms) == [i \in 1..Len(terms) |-> quoted(terms[i])]

\* jobSearchByTitle.build_query
jsbt_build_query(title, keywords, regions, after_date, site_chunk) ==
    LET keyword_part == join(S_OR, quoted_all(keywords))
        region_part == join(S_OR, quoted_all(regions))
        site_part == join(S_OR, [i \in 1..Len(site_chunk) |-> <<"s","i","t","e",":">> \o site_chunk[i]])
    IN quoted(title) \o <<" ","(">> \o keyword_part \o <<")"," ","(">> \o region_part
          \o <<")"," ","(">> \o site_part \o <<")"," ","a","f","t","e","r",":">> \o after_date

\* searchJobsByTitle_bck.build_query
bck_build_query(title, regions, ats_domains_chunk) ==
    LET search_terms == regions \o ats_domains_chunk
        search_part == join(S_OR, quoted_all(search_terms))
    IN quoted(title) \o <<" ","(">> \o search_part \o <<")">>

\* filteredJobsByTitle.build_google_jobs_query
fjbt_build_google_jobs_query(title, keywords, regions, after_date, modes) ==
    LET keyword_part == join(S_OR, quoted_all(keywords))
        region_part == join(S_OR, quoted_all(regions))
        type_keywords == get_selected_jobtype_keywords(modes)
        type_part == IF type_keywords # <<>> THEN join(S_OR, quoted_all(type_keywords))
                     ELSE <<>>
        posted_filter == quoted(<<"p","o","s","t","e","d"," ","a","f","t","e","r"," ">> \o after_date) \o S_OR
                            \o quoted(<<"p","o","s","t","e","d"," ","o","n"," ">> \o after_date) \o S_OR \o quoted(after_date)
    IN quoted(title) \o <<" ","(">> \o keyword_part \o <<")"," ","(">> \o region_part
          \o <<")"," ","(">> \o type_part \o <<")"," ","(">> \o posted_filter \o <<")">>

\* (date.today() - timedelta(days=7)).isoformat() on the reference date
AfterDate == <<"2","0","2","6","-","1","0","-","2","5">>

ConfiguredKeywords == << <<"s","q","l">>, <<"e","t","l">>, <<"b","i">>, <<"d","b","t">> >>
ConfiguredRegions == << <<"U","S">>, <<"R","e","m","o","t","e">>, <<"E","U">>, <<"U","K">> >>
ConfiguredSites == << <<"a",".","c","o","m">>, <<"b",".","o","r","g">>, <<"c",".","i","o">>, <<"e",".","n","e","t">> >>

Prefixes(list, n) == {SubSeq(list, 1, k) : k \in 0..n}

\* ats_domains d101, d102, ...
DomainName(i) == <<"d">> \o ToDigits(100 + i)
DomainNames(n) == [i \in 1..n |-> DomainName(i)]

QueryVariants == {"jobSearchByTitle", "searchJobsByTitle_bck", "filteredJobsByTitle"}

InitQuery ==
    /\ qy_variant \in QueryVariants
    /\ qy_title \in {T_DA, T_QA}
    /\ qy_regions \in Prefixes(ConfiguredRegions, MaxQueryTerms)
    /\ qy_keywords \in IF qy_variant = "searchJobsByTitle_bck" THEN {<<>>}
                       ELSE Prefixes(ConfiguredKeywords, MaxQueryTerms)
    /\ qy_sites \in CASE qy_variant = "jobSearchByTitle" ->
                             Prefixes(ConfiguredSites, MaxQueryTerms)
                      [] qy_variant = "searchJobsByTitle_bck" ->
                             {DomainNames(n) : n \in DomainCounts}
                      [] OTHER -> {<<>>}
    /\ qy_size \in CASE qy_variant = "jobSearchByTitle" -> 1..2
                     [] qy_variant = "searchJobsByTitle_bck" -> {ChunkLimit}
                     [] OTHER -> {1}
    /\ qy_modes \in IF qy_variant = "filteredJobsByTitle" THEN {<<>>, <<"C","o","n","t","r","a","c","t">>} ELSE {<<>>}
    /\ qy_queries = <<>>
    /\ qy_pc = "start"
    /\ idleButQy

\* jobSearchByTitle.run_for_job: the query of every chunk of chunk_list
PlanQueries ==
    /\ qy_pc = "start" /\ qy_variant = "jobSearchByTitle"
    /\ LET chunks == jsbt_chunk_list(qy_sites, qy_size)
       IN qy_queries' = [k \in 1..Len(chunks) |->
                            jsbt_build_query(qy_title, qy_keywords, qy_regions, AfterDate,
                                             chunks[k])]
    /\ qy_pc' = "done"
    /\ UNCHANGED <<qy_variant, qy_title, qy_keywords, qy_regions, qy_sites, qy_size, qy_modes,
                   othersQy>>

\* searchJobsByTitle_bck.main: nothing is searched without regions and
\* domains; else the query of every domain chunk, [[]] when there is none
PlanQueriesBck ==
    /\ qy_pc = "start" /\ qy_variant = "searchJobsByTitle_bck"
    /\ IF qy_regions = <<>> /\ qy_sites = <<>>
       THEN qy_queries' = <<>> /\ qy_pc' = "returned"
       ELSE LET listed == bck_chunk_list(qy_sites, qy_size)
                chunks == IF listed = <<>> THEN << <<>> >> ELSE listed
            IN /\ qy_queries' = [k \in 1..Len(chunks) |->
                                    bck_build_query(qy_title, qy_regions, chunks[k])]
               /\ qy_pc' = "done"
    /\ UNCHANGED <<qy_variant, qy_title, qy_keywords, qy_regions, qy_sites, qy_size, qy_modes,
                   othersQy>>

\* filteredJobsByTitle.run_for_job: one query per title
PlanQueryFiltered ==
    /\ qy_pc = "start" /\ qy_variant = "filteredJobsByTitle"
    /\ qy_queries' = <<fjbt_build_google_jobs_query(qy_title, qy_keywords, qy_regions,
                                                    AfterDate, qy_modes)>>
    /\ qy_pc' = "done"
    /\ UNCHANGED <<qy_variant, qy_title, qy_keywords, qy_regions, qy_sites, qy_size, qy_modes,
                   othersQy>>

NextQuery ==
    \/ PlanQueries
    \/ PlanQueriesBck
    \/ PlanQueryFiltered

SpecQuery == InitQuery /\ [][NextQuery]_vars

\* every term of the list is in the query string of some planned chunk
AllQueried(terms) ==
    \A i \in 1..Len(terms) :
        \E k \in 1..Len(qy_queries) : contains(qy_queries[k], terms[i])

TitleQuotedEverywhere ==
    \A k \in 1..Len(qy_queries) : contains(qy_queries[k], quoted(qy_title))

\* C21: every keyword, every region and every site/domain of the criteria is
\* in the query string of at least one chunk planned for the job title, and
\* the job title is a quoted phrase of every chunk's query.
C21_EveryTermQueried ==
    qy_pc = "done" =>
        /\ AllQueried(qy_keywords) /\ AllQueried(qy_regions) /\ AllQueried(qy_sites)
        /\ TitleQuotedEverywhere

\* with at least one site, jobSearchByTitle does plan every term; the other
\* two planners always do
QueriesCoverTermsGivenSites ==
    (qy_pc = "done" /\ (qy_variant = "jobSearchByTitle" => qy_sites # <<>>)) =>
        /\ AllQueried(qy_keywords) /\ AllQueried(qy_regions) /\ AllQueried(qy_sites)
        /\ TitleQuotedEverywhere
        /\ qy_queries # <<>>

\* ------------------------------------------------------------------------
\* Waits between upstream fetches
\* ------------------------------------------------------------------------
MaxDelayCalls == 2

\* what a run does towards its provider, in order: requests and blocking
\* waits (in milliseconds)
Fetch(ok) == [ev |-> "fetch", ok |-> ok, why |-> "none", ms |-> 0]
Sleep(why, ms) == [ev |-> "sleep", ok |-> FALSE, why |-> why, ms |-> ms]

\* jobSearchByTitle.serpapi_search: the requests and waits of one call
RECURSIVE serpapi_search_trace(_, _)
serpapi_search_trace(responses, attempt) ==
    IF attempt >= max_retries THEN <<>>
    ELSE LET r == responses[attempt + 1]
         IN IF r.kind = "429"
            THEN <<Fetch(FALSE), Sleep("backoff", 5000 * (attempt + 1))>>
                    \o serpapi_search_trace(responses, attempt + 1)
            ELSE IF r.kind = "error"
            THEN <<Fetch(FALSE), Sleep("backoff", 3000 * (attempt + 1))>>
                    \o serpapi_search_trace(responses, attempt + 1)
            ELSE <<Fetch(TRUE)>>

\* jobSearchByTitle.run_for_job: one serpapi_search per chunk, one after
\* the other
RECURSIVE jsbt_run_trace(_)
jsbt_run_trace(calls) ==
    IF calls = <<>> THEN <<>>
    ELSE serpapi_search_trace(Head(calls), 0) \o jsbt_run_trace(Tail(calls))

\* searchJobsByTitle_bck.search_jobs: the requests and waits of one query
RECURSIVE bck_pages_trace(_, _)
bck_pages_trace(pages, page_num) ==
    IF page_num > max_pages THEN <<>>
    ELSE LET r == pages[page_num]
         IN IF r.kind # "ok" THEN <<Fetch(FALSE)>>
            ELSE IF r.jobs = <<>> THEN <<Fetch(TRUE)>>
            ELSE IF ~r.token.has \/ r.token.val = <<>> THEN <<Fetch(TRUE)>>
            ELSE <<Fetch(TRUE), Sleep("delay", 2000)>> \o bck_pages_trace(pages, page_num + 1)

\* linkedin.run with enable_rate_scrape off: one fetch_html per job type
\* and region; the wait is the value random.uniform(0.25, 0.5) returned
RECURSIVE li_run_trace(_)
li_run_trace(fetches) ==
    IF fetches = <<>> THEN <<>>
    ELSE (IF Head(fetches).html THEN <<Fetch(TRUE), Sleep("delay", Head(fetches).wait)>>
          ELSE <<Fetch(FALSE)>>)
            \o li_run_trace(Tail(fetches))

\* the attempts of one serpapi_search call
DelayResponseSeqs ==
    { <<RespOk(EmptyJson)>>, <<Resp429, RespOk(EmptyJson)>>,
      <<RespError, Resp429, RespOk(EmptyJson)>>, [i \in 1..max_retries |-> Resp429] }

\* the pages of one search_jobs call
DelayPages ==
    [kind : {"ok"}, jobs : {<<j>> : j \in BckItems}, token : {Absent, Some(<<"n","e","x","t">>)}]
        \cup {[kind |-> "ok", jobs |-> <<>>, token |-> Absent],
              [kind |-> "http_error", jobs |-> <<>>, token |-> Absent]}

\* values of random.uniform(0.25, 0.5), in milliseconds
UniformWaits == {250, 500}

\* linkedin.run: regions = ["United States", "Remote"]
li_regions == 2

DelayInputs(variant) ==
    CASE variant = "jobSearchByTitle" ->
             UNION {[1..n -> DelayResponseSeqs] : n \in 1..MaxDelayCalls}
      [] variant = "searchJobsByTitle_bck" -> [1..max_pages -> DelayPages]
      [] OTHER ->
             UNION {[1..(n * li_regions) -> [html : BOOLEAN, wait : UniformWaits]] :
                       n \in 1..MaxDelayCalls}

InitDelay ==
    /\ dl_variant \in {"jobSearchByTitle", "searchJobsByTitle_bck", "linkedin"}
    /\ dl_input \in DelayInputs(dl_variant)
    /\ dl_trace = <<>>
    /\ dl_pc = "start"
    /\ idleButDl

DelayRunForJob ==
    /\ dl_pc = "start" /\ dl_variant = "jobSearchByTitle"
    /\ dl_trace' = jsbt_run_trace(dl_input)
    /\ dl_pc' = "done"
    /\ UNCHANGED <<dl_variant, dl_input, othersDl>>

DelaySearchJobs ==
    /\ dl_pc = "start" /\ dl_variant = "searchJobsByTitle_bck"
    /\ dl_trace' = bck_pages_trace(dl_input, 1)
    /\ dl_pc' = "done"
    /\ UNCHANGED <<dl_variant, dl_input, othersDl>>

DelayLinkedinRun ==
    /\ dl_pc = "start" /\ dl_variant = "linkedin"
    /\ dl_trace' = li_run_trace(dl_input)
    /\ dl_pc' = "done"
    /\ UNCHANGED <<dl_variant, dl_input, othersDl>>

NextDelay ==
    \/ DelayRunForJob
    \/ DelaySearchJobs
    \/ DelayLinkedinRun

SpecDelay == InitDelay /\ [][NextDelay]_vars

Succeeded(e) == e.ev = "fetch" /\ e.ok
IsDelay(e) == e.ev = "sleep" /\ e.why = "delay"

\* positions of two successful fetches with no successful fetch in between
ConsecutiveFetches(trace) ==
    {<<i, j>> \in (1..Len(trace)) \X (1..Len(trace)) :
        /\ i < j /\ Succeeded(trace[i]) /\ Succeeded(trace[j])
        /\ \A m \in (i + 1)..(j - 1) : ~Succeeded(trace[m])}

DelayedBetween(trace) ==
    \A p \in ConsecutiveFetches(trace) :
        \E m \in (p[1] + 1)..(p[2] - 1) : IsDelay(trace[m])

FixedDelay(trace) ==
    \A m, n \in 1..Len(trace) :
        (IsDelay(trace[m]) /\ IsDelay(trace[n])) => trace[m].ms = trace[n].ms

\* C22: between any two consecutive successful fetches to the same
\* provider (consecutive pages of a query, consecutive queries of a run)
\* there is a delay of a fixed length, whatever backoff waits there are.
C22_DelayBetweenFetches ==
    dl_pc = "done" => DelayedBetween(dl_trace) /\ FixedDelay(dl_trace)

\* the pages of one search_jobs query are separated by the same 2 s wait
PagesDelayed ==
    (dl_pc = "done" /\ dl_variant = "searchJobsByTitle_bck") =>
        DelayedBetween(dl_trace) /\ FixedDelay(dl_trace)

\* linkedin.run waits after every successful fetch
LinkedinDelayed ==
    (dl_pc = "done" /\ dl_variant = "linkedin") => DelayedBetween(dl_trace)

\* ------------------------------------------------------------------------
\* linkedin.run and the workbook of the run
\* ------------------------------------------------------------------------
S_Sheet1 == <<"S","h","e","e","t","1">>

\* initialize_excel_file on the path generate_output_file returned, which
\* never exists: a workbook whose only sheet is an empty "Sheet1" is saved
initialize_excel_file(file) ==
    IF ~file.exists THEN [exists |-> TRUE, sheets |-> <<[name |-> S_Sheet1, rows |-> <<>>]>>]
    ELSE file

\* job_title[:31]
li_sheet_name(title) == SubSeq(title, 1, Min(31, Len(title)))

SheetNames(file) == {file.sheets[k].name : k \in 1..Len(file.sheets)}

\* append_sheet: the lone "Sheet1" is renamed and replaced by the rows;
\* else the sheet is added, which raises when the name is taken
append_sheet(file, name, df) ==
    IF S_Sheet1 \in SheetNames(file) /\ Len(file.sheets) = 1
    THEN [raised |-> FALSE,
          file |-> [exists |-> TRUE, sheets |-> <<[name |-> name, rows |-> df]>>]]
    ELSE IF name \in SheetNames(file)
    THEN [raised |-> TRUE, file |-> file]
    ELSE [raised |-> FALSE,
          file |-> [exists |-> TRUE, sheets |-> Append(file.sheets, [name |-> name, rows |-> df])]]

\* save_sheet
save_sheet(title, records, file) ==
    IF records = <<>> THEN [saved |-> FALSE, raised |-> FALSE, file |-> file, rows |-> <<>>]
    ELSE LET df == li_drop_duplicates(records)
         IN IF df = <<>> THEN [saved |-> FALSE, raised |-> FALSE, file |-> file, rows |-> <<>>]
            ELSE LET r == append_sheet(file, li_sheet_name(title), df)
                 IN [saved |-> ~r.raised, raised |-> r.raised, file |-> r.file, rows |-> df]

\* the rows of the searches of one title: parse_search of every page
\* fetch_html returned
RECURSIVE li_combine(_)
li_combine(fetches) ==
    IF fetches = <<>> THEN <<>>
    ELSE (IF Head(fetches).html THEN li_parse_search(Head(fetches).cards) ELSE <<>>)
            \o li_combine(Tail(fetches))

LiCard(u) ==
    [title |-> "t1", link |-> Some(u), opts |-> FALSE,
     posted_at |-> Absent, desc |-> Absent, sched |-> Absent]

\* what fetch_html returns: None, or a page with up to one card
LiFetches ==
    {[html |-> FALSE, cards |-> <<>>]}
        \cup {[html |-> TRUE, cards |-> cs] : cs \in {<<>>, <<LiCard(U_x1)>>, <<LiCard(U_x2)>>}}

\* cfg["job_titles"]: up to MaxTitles consecutive entries of a list that
\* names one title twice
LiConfiguredTitles == <<T_DA, T_QA, T_DA>>
LiTitleLists ==
    {[i \in 1..n |-> LiConfiguredTitles[((from + i - 2) % 3) + 1]] :
        from \in 1..3, n \in 0..MaxTitles}

InitLinkedin ==
    /\ li_pc = "start"
    /\ li_titles \in LiTitleLists
    /\ li_title = <<>> /\ li_combined = <<>> /\ li_saved = <<>>
    /\ li_file = NoWorkbook
    /\ idleButLi

\* run: excel_path = generate_output_file(...); initialize_excel_file(excel_path)
LinkedinStart ==
    /\ li_pc = "start"
    /\ li_file' = initialize_excel_file(li_file)
    /\ li_pc' = "titles"
    /\ UNCHANGED <<li_titles, li_title, li_combined, li_saved, othersLi>>

\* run: one iteration of the job title loop (one job type, both regions)
LinkedinTitle ==
    /\ li_pc = "titles" /\ li_titles # <<>>
    /\ \E fetches \in [1..li_regions -> LiFetches] :
          LET combined == li_combine(fetches)
              r == save_sheet(Head(li_titles), combined, li_file)
          IN /\ li_combined' = combined
             /\ li_file' = r.file
             /\ li_saved' = IF r.saved
                            THEN Append(li_saved, [title |-> Head(li_titles), rows |-> r.rows])
                            ELSE li_saved
             /\ li_pc' = IF r.raised THEN "raised" ELSE "titles"
    /\ li_title' = Head(li_titles)
    /\ li_titles' = Tail(li_titles)
    /\ UNCHANGED othersLi

LinkedinEnd ==
    /\ li_pc = "titles" /\ li_titles = <<>>
    /\ li_pc' = "done"
    /\ UNCHANGED <<li_titles, li_title, li_combined, li_saved, li_file, othersLi>>

NextLinkedin ==
    \/ LinkedinStart
    \/ LinkedinTitle
    \/ LinkedinEnd

SpecLinkedin == InitLinkedin /\ [][NextLinkedin]_vars

NoEmptySheet(file) == \A k \in 1..Len(file.sheets) : file.sheets[k].rows # <<>>

\* C24: the workbook of a run is created lazily: as long as no title with a
\* non-empty result set has been saved, no workbook file exists (none
\* existed before the run), and a saved workbook never has a sheet without
\* posting rows.
C24_LazyWorkbook ==
    li_pc # "idle" =>
        /\ li_saved = <<>> => ~li_file.exists
        /\ li_file.exists => NoEmptySheet(li_file)

\* jobSearchByTitle.main and filteredJobsByTitle.main do create the
\* workbook lazily
RunForJobLazyWorkbook ==
    pc # "idle" =>
        /\ completed = <<>> => excel_file \in {NoWorkbook, PreviousWorkbook}
        /\ NoEmptySheet(excel_file)

====
